---- MODULE Spec2Model ----
(***************************************************************************)
(* A model of the edit-intent resolution pipeline of the repository:       *)
(*   - analyzeEditIntent   (src/lib/edit-intent-analyzer.ts)               *)
(*   - executeSearchPlan   (src/lib/file-search-executor.ts)               *)
(* Strings are TLA+ strings handled character by character, so that the    *)
(* regular expressions, includes/endsWith tests, split and trim of the     *)
(* source are computed rather than assumed.                                *)
(***************************************************************************)
EXTENDS Integers, Sequences, FiniteSets, TLC

(***************************************************************************)
(* JavaScript string primitives.                                           *)
(***************************************************************************)
CharAt(s, i) == SubSeq(s, i, i)

UpperToLower ==
  [c \in {"A","B","C","D","E","F","G","H","I","J","K","L","M","N","O","P","Q",
          "R","S","T","U","V","W","X","Y","Z"} |->
     CASE c = "A" -> "a" [] c = "B" -> "b" [] c = "C" -> "c" [] c = "D" -> "d"
       [] c = "E" -> "e" [] c = "F" -> "f" [] c = "G" -> "g" [] c = "H" -> "h"
       [] c = "I" -> "i" [] c = "J" -> "j" [] c = "K" -> "k" [] c = "L" -> "l"
       [] c = "M" -> "m" [] c = "N" -> "n" [] c = "O" -> "o" [] c = "P" -> "p"
       [] c = "Q" -> "q" [] c = "R" -> "r" [] c = "S" -> "s" [] c = "T" -> "t"
       [] c = "U" -> "u" [] c = "V" -> "v" [] c = "W" -> "w" [] c = "X" -> "x"
       [] c = "Y" -> "y" [] c = "Z" -> "z"]

RECURSIVE LowerFrom(_, _)
LowerFrom(s, i) ==
  IF i > Len(s) THEN ""
  ELSE (IF CharAt(s, i) \in DOMAIN UpperToLower THEN UpperToLower[CharAt(s, i)] ELSE CharAt(s, i))
         \o LowerFrom(s, i + 1)

\* String.prototype.toLowerCase
toLowerCase(s) == LowerFrom(s, 1)

\* s.substring(i-1, j-1) with 1-based positions: the positions are clamped
\* to the string, and the result is empty when j <= i
Slice(s, i, j) ==
  LET from == IF i < 1 THEN 1 ELSE i
      to == IF j > Len(s) + 1 THEN Len(s) + 1 ELSE j
  IN  IF to <= from THEN "" ELSE SubSeq(s, from, to - 1)

\* does t occur in s at (1-based) position i
OccursAt(s, t, i) ==
  /\ i >= 1
  /\ i + Len(t) - 1 <= Len(s)
  /\ Len(t) = 0 \/ SubSeq(s, i, i + Len(t) - 1) = t

\* String.prototype.includes
includes(s, t) == \E i \in 1..(Len(s) + 1) : OccursAt(s, t, i)

\* String.prototype.startsWith / endsWith
startsWith(s, t) == OccursAt(s, t, 1)
endsWith(s, t) == Len(t) <= Len(s) /\ OccursAt(s, t, Len(s) - Len(t) + 1)

\* the characters \s and \w of a regular expression
IsSpace(c) == c \in {" ", "\t", "\n", "\r"}
IsWordChar(c) ==
  c \in {"a","b","c","d","e","f","g","h","i","j","k","l","m","n","o","p","q",
         "r","s","t","u","v","w","x","y","z","0","1","2","3","4","5","6","7",
         "8","9","_"}
    \cup DOMAIN UpperToLower

\* String.prototype.trim
trim(s) ==
  LET kept == {i \in 1..Len(s) : ~IsSpace(CharAt(s, i))}
  IN  IF kept = {} THEN ""
      ELSE Slice(s, CHOOSE i \in kept : \A j \in kept : i <= j,
                    (CHOOSE i \in kept : \A j \in kept : i >= j) + 1)

\* String.prototype.split(sep) for a one-character separator: the pieces
\* between the separators, in order (always at least one piece)
split(s, sep) ==
  LET RECURSIVE SplitFrom(_, _)
      SplitFrom(start, i) ==
        IF i > Len(s) THEN << Slice(s, start, Len(s) + 1) >>
        ELSE IF CharAt(s, i) = sep
             THEN << Slice(s, start, i) >> \o SplitFrom(i + 1, i + 1)
             ELSE SplitFrom(start, i + 1)
  IN  SplitFrom(1, 1)

\* Array.prototype.join for a separator string
join(seq, sep) ==
  LET RECURSIVE JoinFrom(_)
      JoinFrom(i) ==
        IF i > Len(seq) THEN ""
        ELSE IF i = Len(seq) THEN seq[i]
        ELSE seq[i] \o sep \o JoinFrom(i + 1)
  IN  JoinFrom(1)

\* path.split('/').pop()
Basename(path) == LET parts == split(path, "/") IN parts[Len(parts)]

\* helpers on sequences
\* the element of a one-element set; "x \in {e}" names the value of e
Only(S) == CHOOSE x \in S : TRUE
SeqContains(seq, x) == \E i \in DOMAIN seq : seq[i] = x
\* [...new Set(files)]: first occurrences, in order
Dedup(seq) ==
  LET RECURSIVE DedupFrom(_, _)
      DedupFrom(items, i) ==
        IF i > Len(items) THEN << >>
        ELSE (IF \E j \in 1..(i - 1) : items[j] = items[i] THEN << >> ELSE << items[i] >>)
               \o DedupFrom(items, i + 1)
  IN  Only({ DedupFrom(items, 1) : items \in {seq} })

(***************************************************************************)
(* Regular expressions.  A regular expression is a tree of records; its    *)
(* meaning is the set of positions where a match that starts at position i *)
(* can end (Ends), which is exactly what a backtracking matcher explores.  *)
(* All expressions of the source carry the i flag: the subject is          *)
(* lower-cased and the literals are written in lower case.                 *)
(***************************************************************************)
Lit(t) == [k |-> "lit", s |-> t]
Ws == [k |-> "ws"]                     \* \s+
Word == [k |-> "word"]                 \* \w+
AnyStar == [k |-> "any"]               \* .*
Eos == [k |-> "eos"]                   \* $
Opt(r) == [k |-> "opt", r |-> r]
Alt(rs) == [k |-> "alt", rs |-> rs]
Cat(rs) == [k |-> "cat", rs |-> rs]
NotAhead(r) == [k |-> "nla", r |-> r]  \* (?!r)
Bos == [k |-> "bos"]                   \* ^
\* one character that is (neg = FALSE) or is not (neg = TRUE) in the set cs
CharSet(cs, neg) == [k |-> "set", cs |-> cs, neg |-> neg]
Star(r) == [k |-> "star", r |-> r]     \* r*
Plus(r) == [k |-> "plus", r |-> r]     \* r+

RECURSIVE Ends(_, _, _)
RECURSIVE CatEnds(_, _, _, _)
RECURSIVE StarEnds(_, _, _)
Ends(re, s, i) ==
  CASE re.k = "lit" -> IF OccursAt(s, re.s, i) THEN {i + Len(re.s)} ELSE {}
    [] re.k = "cat" -> CatEnds(re.rs, 1, s, {i})
    [] re.k = "ws" ->
         {j \in (i + 1)..(Len(s) + 1) : \A m \in i..(j - 1) : IsSpace(CharAt(s, m))}
    [] re.k = "word" ->
         {j \in (i + 1)..(Len(s) + 1) : \A m \in i..(j - 1) : IsWordChar(CharAt(s, m))}
    [] re.k = "any" ->
         {j \in i..(Len(s) + 1) : \A m \in i..(j - 1) : CharAt(s, m) \notin {"\n", "\r"}}
    [] re.k = "eos" -> IF i = Len(s) + 1 THEN {i} ELSE {}
    [] re.k = "opt" -> {i} \cup Ends(re.r, s, i)
    [] re.k = "alt" -> UNION {Ends(re.rs[n], s, i) : n \in DOMAIN re.rs}
    [] re.k = "nla" -> IF Ends(re.r, s, i) = {} THEN {i} ELSE {}
    [] re.k = "bos" -> IF i = 1 THEN {i} ELSE {}
    [] re.k = "set" ->
         IF i <= Len(s) /\ ((CharAt(s, i) \in re.cs) # re.neg) THEN {i + 1} ELSE {}
    [] re.k = "star" -> StarEnds(re.r, s, {i})
    [] re.k = "plus" -> StarEnds(re.r, s, Ends(re.r, s, i))
CatEnds(rs, n, s, from) ==
  IF n > Len(rs) \/ from = {} THEN from
  ELSE CatEnds(rs, n + 1, s, UNION {Ends(rs[n], s, i) : i \in from})

\* the positions reachable from the positions in from by repeating r
StarEnds(r, s, from) ==
  Only({ IF next = from THEN from ELSE StarEnds(r, s, next)
         : next \in {from \cup UNION {Ends(r, s, i) : i \in from}} })

\* RegExp.prototype.test / String.prototype.match(re) # null for a
\* case-insensitive expression without the g flag
\* the same for a subject that is already in lower case
MatchesLower(re, s) == \E i \in 1..(Len(s) + 1) : Ends(re, s, i) # {}
RegexTest(re, subject) == MatchesLower(re, toLowerCase(subject))


(***************************************************************************)
(* The pattern table of analyzeEditIntent, in source order.                *)
(***************************************************************************)
The == Opt(Cat(<< Lit("the"), Ws >>))
A == Opt(Cat(<< Lit("a"), Ws >>))
\* (w1|w2|...)
OneOf(ws) == Alt([i \in DOMAIN ws |-> Lit(ws[i])])
\* verb\s+(the\s+)?(\w+)
VerbThing(verb) == << Lit(verb), Ws, The, Word >>
\* verb\s+.*\s+(w1|w2|...)
VerbAnyKind(verb, ws) == Cat(<< Lit(verb), Ws, AnyStar, Ws, OneOf(ws) >>)
\* verb\s+(a\s+)?(\w+)\s+(page|section|feature|component)
VerbNewPart(verb) ==
  Cat(<< Lit(verb), Ws, A, Word, Ws, OneOf(<< "page", "section", "feature", "component" >>) >>)
Removable == << "button", "link", "text", "element", "section", "component" >>

\* the closed enumeration EditType
EditType ==
  {"UPDATE_COMPONENT", "ADD_FEATURE", "FIX_ISSUE", "UPDATE_STYLE", "REFACTOR", "FULL_REBUILD",
   "ADD_DEPENDENCY"}

StylePatterns ==
  << Cat(VerbThing("update") \o
         << Ws, OneOf(<< "component", "section", "page" >>), Ws,
            OneOf(<< "style", "styling", "appearance", "color", "theme" >>) >>),
     Cat(VerbThing("change") \o
         << Ws, OneOf(<< "background", "color", "theme", "styling" >>) >>),
     Cat(VerbThing("make") \o
         << Ws, OneOf(<< "blue", "red", "green", "dark", "light", "responsive" >>) >>),
     Cat(VerbThing("modify") \o
         << Ws, OneOf(<< "layout", "grid", "flex", "design" >>) >>),
     Cat(VerbThing("update") \o
         << Ws, Opt(Cat(<< Lit("to"), Ws >>)), Opt(Cat(<< Lit("be"), Ws >>)),
            Lit("responsive") >>),
     VerbAnyKind("change", << "bg-", "text-", "border-", "p-", "m-", "flex", "grid" >>),
     Cat(<< Lit("add"), Ws,
            OneOf(<< "hover", "focus", "active", "transition", "animation" >>), Ws,
            Lit("effect"), Opt(Lit("s")) >>),
     Cat(<< Lit("make"), Ws, AnyStar, Ws, OneOf(<< "mobile", "desktop", "tablet" >>), Ws,
            OneOf(<< "friendly", "responsive" >>) >>) >>

ComponentPatterns ==
  << Cat(VerbThing("update") \o
         << Ws, OneOf(<< "component", "section", "page" >>),
            NotAhead(Cat(<< Ws, OneOf(<< "style", "styling", "color", "theme" >>) >>)) >>),
     Cat(VerbThing("change") \o
         << Ws, OneOf(<< "functionality", "behavior", "logic" >>) >>),
     Cat(VerbThing("modify") \o << Ws, OneOf(<< "props", "state", "hooks" >>) >>),
     Cat(VerbThing("edit") \o
         << NotAhead(Cat(<< Ws, OneOf(<< "style", "color", "theme" >>) >>)) >>),
     Cat(VerbThing("fix") \o
         << Ws, OneOf(<< "component", "logic", "functionality" >>) >>),
     VerbAnyKind("remove", Removable),
     VerbAnyKind("delete", Removable),
     VerbAnyKind("hide", Removable),
     VerbAnyKind("replace", << "text", "content", "element" >>),
     Cat(<< Lit("change"), Ws, AnyStar, Ws,
            OneOf(<< "text", "content", "label", "title" >>), Ws, Lit("to") >>) >>

FeaturePatterns ==
  << Cat(<< Lit("add"), Ws, A, Lit("new"), Ws, Word, Ws,
            OneOf(<< "page", "section", "feature", "component" >>) >>),
     VerbNewPart("create"),
     VerbNewPart("implement"),
     VerbNewPart("build"),
     Cat(<< Lit("add"), Ws, Word, Ws, Lit("to"), Ws, The, Word >>),
     Cat(<< Lit("include"), Ws, A, Word, Ws,
            OneOf(<< "component", "section", "feature" >>) >>),
     Cat(<< Lit("add"), Ws,
            OneOf(<< "state", "usestate", "useeffect", "usememo", "usecallback" >>) >>),
     Cat(<< Lit("implement"), Ws,
            Alt(<< Lit("routing"), Lit("navigation"),
                   Cat(<< Lit("form"), Ws, Lit("handling") >>) >>) >>),
     Cat(<< Lit("create"), Ws, OneOf(<< "responsive", "mobile", "desktop" >>), Ws,
            OneOf(<< "layout", "design" >>) >>) >>

FixPatterns ==
  << Cat(<< Lit("fix"), Ws, The, Alt(<< Word, Cat(<< Word, Ws, Word >>) >>),
            NotAhead(Cat(<< Ws, OneOf(<< "styling", "style", "color", "theme" >>) >>)) >>),
     Cat(<< Lit("resolve"), Ws, The, OneOf(<< "error", "issue", "bug", "problem" >>) >>),
     Cat(VerbThing("debug")),
     Cat(VerbThing("repair")),
     Cat(VerbThing("correct")),
     Cat(VerbThing("optimize")),
     Cat(<< Lit("improve"), Ws, OneOf(<< "performance", "accessibility", "a11y" >>) >>),
     Cat(<< Lit("fix"), Ws, OneOf(<< "accessibility", "a11y", "performance" >>), Ws,
            Lit("issue"), Opt(Lit("s")) >>) >>

RefactorPatterns ==
  << Cat(VerbThing("refactor")),
     Cat(<< Lit("clean"), Ws, Lit("up"), Ws, The, Alt(<< Word, Lit("code") >>) >>),
     Cat(VerbThing("reorganize")),
     Cat(VerbThing("restructure")),
     Cat(<< Lit("improve"), Ws, The, Lit("code"), Ws, Lit("quality") >>),
     Cat(<< Lit("extract"), Ws, OneOf(<< "component", "hook", "utility", "function" >>) >>),
     Cat(VerbThing("split") \o << Ws, Lit("into"), Ws, Lit("smaller") >>) >>

RebuildPatterns ==
  << Cat(<< Lit("start"), Ws, Lit("over") >>),
     Cat(<< Lit("recreate"), Ws, Lit("everything") >>),
     Cat(<< Lit("rebuild"), Ws, The, OneOf(<< "app", "application", "entire" >>) >>),
     Cat(<< Lit("new"), Ws, OneOf(<< "app", "application" >>) >>),
     Cat(<< Lit("from"), Ws, Lit("scratch") >>),
     Cat(<< Lit("completely"), Ws, Lit("redesign") >>) >>

DependencyPatterns ==
  << Cat(<< Lit("install"), Ws, Word >>),
     Cat(<< Lit("add"), Ws, Word, Ws, OneOf(<< "package", "library", "dependency" >>) >>),
     Cat(<< Lit("use"), Ws, Word, Ws, OneOf(<< "library", "framework", "package" >>) >>),
     Cat(<< Lit("integrate"), Ws, Word >>),
     Cat(<< Lit("import"), Ws, Word, Ws, OneOf(<< "library", "package" >>) >>) >>

\* the table with the generic component group listed before the style group
patternsComponentFirst ==
  << [type |-> "UPDATE_COMPONENT", patterns |-> ComponentPatterns],
     [type |-> "UPDATE_STYLE", patterns |-> StylePatterns],
     [type |-> "ADD_FEATURE", patterns |-> FeaturePatterns],
     [type |-> "FIX_ISSUE", patterns |-> FixPatterns],
     [type |-> "REFACTOR", patterns |-> RefactorPatterns],
     [type |-> "FULL_REBUILD", patterns |-> RebuildPatterns],
     [type |-> "ADD_DEPENDENCY", patterns |-> DependencyPatterns] >>

\* const patterns: IntentPattern[]
patterns ==
  << [type |-> "UPDATE_STYLE", patterns |-> StylePatterns],
     [type |-> "UPDATE_COMPONENT", patterns |-> ComponentPatterns],
     [type |-> "ADD_FEATURE", patterns |-> FeaturePatterns],
     [type |-> "FIX_ISSUE", patterns |-> FixPatterns],
     [type |-> "REFACTOR", patterns |-> RefactorPatterns],
     [type |-> "FULL_REBUILD", patterns |-> RebuildPatterns],
     [type |-> "ADD_DEPENDENCY", patterns |-> DependencyPatterns] >>

(***************************************************************************)
(* The manifest.  manifest.files is an object whose entries are visited in *)
(* insertion order: it is a sequence of records                            *)
(*   [path, content, lastModified, hasComponentInfo, componentName].       *)
(***************************************************************************)
Paths(manifest) == [i \in DOMAIN manifest.files |-> manifest.files[i].path]

Min(S) == CHOOSE x \in S : \A y \in S : x <= y
Max(S) == CHOOSE x \in S : \A y \in S : x >= y

\* the maximal \w runs of s from position i on, in order: s.match(/\b\w+\b/g)
RECURSIVE WordRunsFrom(_, _)
WordRunsFrom(s, i) ==
  IF i > Len(s) THEN << >>
  ELSE IF ~IsWordChar(CharAt(s, i)) THEN WordRunsFrom(s, i + 1)
  ELSE LET j == Max(Ends(Word, s, i))
       IN  << Slice(s, i, j) >> \o WordRunsFrom(s, j)

StopWords ==
  {"the", "a", "an", "in", "on", "to", "from", "update", "change", "modify", "edit",
   "fix", "make"}

\* prompt.replace(/\b(the|a|an|...|make)\b/gi, ''): every maximal \w run
\* that is a stop word is deleted, every other character is kept
RECURSIVE RemoveStopWordsFrom(_, _)
RemoveStopWordsFrom(s, i) ==
  IF i > Len(s) THEN ""
  ELSE IF ~IsWordChar(CharAt(s, i)) THEN CharAt(s, i) \o RemoveStopWordsFrom(s, i + 1)
  ELSE LET j == Max(Ends(Word, s, i))
           w == Slice(s, i, j)
       IN  (IF toLowerCase(w) \in StopWords THEN "" ELSE w) \o RemoveStopWordsFrom(s, j)

extractComponentNames(p) ==
  LET cleanPrompt == toLowerCase(RemoveStopWordsFrom(p, 1))
      matches == WordRunsFrom(cleanPrompt, 1)
      LongEnough(w) == Len(w) > 2
  IN  SelectSeq(matches, LongEnough)

uiElements ==
  << "header", "footer", "nav", "sidebar", "button", "card", "modal", "hero", "banner",
     "about", "services", "features", "testimonials", "gallery", "contact", "team",
     "pricing" >>

\* second pass of findComponentFiles: the first listed element that the
\* prompt names and some file matches decides; << >> when none does
RECURSIVE UiElementMatch(_, _, _)
UiElementMatch(lowerPrompt, manifest, e) ==
  IF e > Len(uiElements) THEN << >>
  ELSE LET element == uiElements[e]
           fileName(i) == toLowerCase(Basename(manifest.files[i].path))
           exact == {i \in DOMAIN manifest.files :
                       includes(fileName(i), element \o ".") \/ fileName(i) = element}
           partial == {i \in DOMAIN manifest.files : includes(fileName(i), element)}
       IN  IF includes(lowerPrompt, element) /\ exact # {}
             THEN << manifest.files[Min(exact)].path >>
           ELSE IF includes(lowerPrompt, element) /\ partial # {}
             THEN << manifest.files[Min(partial)].path >>
           ELSE UiElementMatch(lowerPrompt, manifest, e + 1)

\* as ComponentFilesFor, without the limit to the first match
ComponentFilesForEveryMatch(lowerPrompt, componentWords, manifest) ==
  LET Named(f) ==
        \E fileName \in {toLowerCase(Basename(f.path))},
           componentName \in {toLowerCase(f.componentName)} :
          \E w \in DOMAIN componentWords :
            \/ includes(fileName, componentWords[w])
            \/ f.hasComponentInfo /\ includes(componentName, componentWords[w])
      firstPass == SelectSeq(manifest.files, Named)
      files == IF Len(firstPass) = 0
                 THEN UiElementMatch(lowerPrompt, manifest, 1)
                 ELSE [i \in DOMAIN firstPass |-> firstPass[i].path]
  IN  IF Len(files) > 0 THEN files ELSE << manifest.entryPoint >>

\* the body of findComponentFiles once the prompt is lower-cased and its
\* component words are extracted
ComponentFilesFor(lowerPrompt, componentWords, manifest) ==
  LET Named(f) ==
        \E fileName \in {toLowerCase(Basename(f.path))},
           componentName \in {toLowerCase(f.componentName)} :
          \E w \in DOMAIN componentWords :
            \/ includes(fileName, componentWords[w])
            \/ f.hasComponentInfo /\ includes(componentName, componentWords[w])
      firstPass == SelectSeq(manifest.files, Named)
      files == IF Len(firstPass) = 0
                 THEN UiElementMatch(lowerPrompt, manifest, 1)
                 ELSE << firstPass[1].path >>
  IN  IF Len(files) > 0 THEN files ELSE << manifest.entryPoint >>

findComponentFiles(p, manifest) ==
  Only({ ComponentFilesFor(lowerPrompt, componentWords, manifest) :
           lowerPrompt \in {toLowerCase(p)},
           componentWords \in {extractComponentNames(p)} })

\* prompt.match(/(?:in|to|on|inside)\s+(?:the\s+)?(\w+)/i): << >> for no
\* match, else << the text of group 1 >> of the leftmost match
LocationAlternatives == << "in", "to", "on", "inside" >>
LocationMatch(p) ==
  LET s == toLowerCase(p)
      \* where group 1 can start for a match that begins at i
      CaptureStarts(i) ==
        UNION {
          LET afterWs == Ends(Cat(<< Lit(LocationAlternatives[a]), Ws >>), s, i)
          IN  {c \in afterWs \cup UNION {Ends(Cat(<< Lit("the"), Ws >>), s, w) : w \in afterWs} :
                 Ends(Word, s, c) # {}}
          : a \in DOMAIN LocationAlternatives }
      starts == {i \in 1..Len(s) : CaptureStarts(i) # {}}
  IN  IF starts = {} THEN << >>
      ELSE LET i == Min(starts)
               \* the first alternative that leads to a match
               a == Min({n \in DOMAIN LocationAlternatives :
                           \E w \in Ends(Cat(<< Lit(LocationAlternatives[n]), Ws >>), s, i) :
                             \/ Ends(Word, s, w) # {}
                             \/ Ends(Cat(<< Lit("the"), Ws, Word >>), s, w) # {}})
               \* \s+ is greedy
               w == Max(Ends(Cat(<< Lit(LocationAlternatives[a]), Ws >>), s, i))
               viaThe == {c \in Ends(Cat(<< Lit("the"), Ws >>), s, w) : Ends(Word, s, c) # {}}
               c == IF viaThe # {} THEN Max(viaThe) ELSE w
           IN  << Slice(p, c, Max(Ends(Word, s, c))) >>

\* the lists of a list of lists, one after the other: push(...list) in a loop
ConcatAll(seqs) ==
  LET RECURSIVE ConcatFrom(_, _)
      ConcatFrom(lists, i) ==
        IF i > Len(lists) THEN << >> ELSE lists[i] \o ConcatFrom(lists, i + 1)
  IN  Only({ ConcatFrom(lists, 1) : lists \in {seqs} })

\* a resolver whose page branch collects the router files without the entry point
findFeatureInsertionPointsRoutersOnly(p, manifest) ==
  LET lowerPrompt == toLowerCase(p)
      IsRouter(f) ==
        \/ includes(f.content, "Route")
        \/ includes(f.content, "createBrowserRouter")
        \/ includes(f.path, "router")
        \/ includes(f.path, "routes")
      routers == SelectSeq(manifest.files, IsRouter)
      forPage ==
        IF includes(lowerPrompt, "page")
          THEN [i \in DOMAIN routers |-> routers[i].path]
          ELSE << >>
      RelatedTo(componentWords) ==
        ConcatAll([w \in DOMAIN componentWords |->
                     Only({ IF relatedFiles[1] # manifest.entryPoint
                              THEN relatedFiles ELSE << >>
                            : relatedFiles \in {findComponentFiles(componentWords[w], manifest)} })])
      forComponent ==
        IF \/ includes(lowerPrompt, "component") \/ includes(lowerPrompt, "section")
           \/ includes(lowerPrompt, "add") \/ includes(lowerPrompt, "create")
          THEN Only({ IF Len(locationMatch) > 0
                        THEN findComponentFiles(locationMatch[1], manifest)
                      ELSE IF Len(forPage \o related) = 0
                        THEN << manifest.entryPoint >>
                      ELSE related
                      : locationMatch \in {LocationMatch(p)},
                        related \in {RelatedTo(Only({ws : ws \in {extractComponentNames(p)}}))} })
          ELSE << >>
  IN  Dedup(forPage \o forComponent)

findFeatureInsertionPoints(p, manifest) ==
  LET lowerPrompt == toLowerCase(p)
      IsRouter(f) ==
        \/ includes(f.content, "Route")
        \/ includes(f.content, "createBrowserRouter")
        \/ includes(f.path, "router")
        \/ includes(f.path, "routes")
      routers == SelectSeq(manifest.files, IsRouter)
      forPage ==
        IF includes(lowerPrompt, "page")
          THEN [i \in DOMAIN routers |-> routers[i].path]
                 \o (IF manifest.entryPoint # "" THEN << manifest.entryPoint >> ELSE << >>)
          ELSE << >>
      RelatedTo(componentWords) ==
        ConcatAll([w \in DOMAIN componentWords |->
                     Only({ IF relatedFiles[1] # manifest.entryPoint
                              THEN relatedFiles ELSE << >>
                            : relatedFiles \in {findComponentFiles(componentWords[w], manifest)} })])
      forComponent ==
        IF \/ includes(lowerPrompt, "component") \/ includes(lowerPrompt, "section")
           \/ includes(lowerPrompt, "add") \/ includes(lowerPrompt, "create")
          THEN Only({ IF Len(locationMatch) > 0
                        THEN findComponentFiles(locationMatch[1], manifest)
                      ELSE IF Len(forPage \o related) = 0
                        THEN << manifest.entryPoint >>
                      ELSE related
                      : locationMatch \in {LocationMatch(p)},
                        related \in {RelatedTo(Only({ws : ws \in {extractComponentNames(p)}}))} })
          ELSE << >>
  IN  Dedup(forPage \o forComponent)

\* the indices of files sorted by lastModified descending (Array.prototype.sort
\* is stable: equal times keep the manifest order)
NewestFirst(manifest) ==
  LET n == Len(manifest.files)
      Before(j, i) ==
        \/ manifest.files[j].lastModified > manifest.files[i].lastModified
        \/ manifest.files[j].lastModified = manifest.files[i].lastModified /\ j < i
  IN  [r \in 1..n |->
         CHOOSE i \in 1..n : Cardinality({j \in 1..n : Before(j, i)}) = r - 1]

ErrorWords == << "error", "bug", "issue", "problem", "broken", "not working" >>
MaxRecentFiles == 5

findProblemFiles(p, manifest) ==
  LET sortedFiles == NewestFirst(manifest)
      top == SubSeq(sortedFiles, 1, IF Len(sortedFiles) < MaxRecentFiles
                                      THEN Len(sortedFiles) ELSE MaxRecentFiles)
      recent == IF RegexTest(OneOf(ErrorWords), p)
                  THEN [i \in DOMAIN top |-> manifest.files[top[i]].path]
                  ELSE << >>
  IN  Dedup(recent \o findComponentFiles(p, manifest))

findStyleFiles(p, manifest) ==
  LET IsTailwind(path) == includes(path, "tailwind.config")
      tailwind == SelectSeq(Paths(manifest), IsTailwind)
  IN  manifest.styleFiles
        \o (IF Len(tailwind) > 0 THEN << tailwind[1] >> ELSE << >>)
        \o findComponentFiles(p, manifest)

findRefactorTargets(p, manifest) == findComponentFiles(p, manifest)

findPackageFiles(manifest) ==
  LET IsPackageFile(path) ==
        \/ endsWith(path, "package.json")
        \/ endsWith(path, "vite.config.js")
        \/ endsWith(path, "tsconfig.json")
  IN  SelectSeq(Paths(manifest), IsPackageFile)

IsQuote(c) == c \in {"\"", "'"}

\* prompt.match(/["']([^"']+)["']/g) with the quotes stripped: scanning from
\* the left, a quote, at least one character that is no quote, and a quote
RECURSIVE QuotedStringsFrom(_, _)
QuotedStringsFrom(p, i) ==
  IF i > Len(p) THEN << >>
  ELSE LET closing == {j \in (i + 1)..Len(p) : IsQuote(CharAt(p, j))}
       IN  IF IsQuote(CharAt(p, i)) /\ closing # {} /\ Min(closing) > i + 1
             THEN << Slice(p, i + 1, Min(closing)) >> \o QuotedStringsFrom(p, Min(closing) + 1)
             ELSE QuotedStringsFrom(p, i + 1)

ActionVerbs == << "remove", "delete", "hide" >>
ActionSuffix ==
  Alt(<< Cat(<< Ws, Lit("button") >>), Cat(<< Ws, Lit("link") >>), Cat(<< Ws, Lit("text") >>),
         Cat(<< Ws, Lit("element") >>), Cat(<< Ws, Lit("section") >>), Eos >>)

\* prompt.match(/(?:remove|delete|hide)\s+(?:the\s+)?(.+?)(?:\s+button|...|$)/i):
\* << >> for no match, else << group 1 >> of the leftmost match, found in the
\* matcher's order: \s+ longest first, "the" taken first, (.+?) shortest first
ActionMatch(p) ==
  LET s == toLowerCase(p)
      \* the ends of (.+?) that start at c and are followed by the suffix
      CaptureEnds(c) ==
        {e \in (c + 1)..(Len(s) + 1) :
           /\ \A m \in c..(e - 1) : CharAt(s, m) \notin {"\n", "\r"}
           /\ Ends(ActionSuffix, s, e) # {}}
      ViaThe(w) == {c \in Ends(Cat(<< Lit("the"), Ws >>), s, w) : CaptureEnds(c) # {}}
      Works(w) == ViaThe(w) # {} \/ CaptureEnds(w) # {}
      AfterWs(i) ==
        {w \in UNION {Ends(Cat(<< Lit(ActionVerbs[v]), Ws >>), s, i) : v \in DOMAIN ActionVerbs} :
           Works(w)}
      starts == {i \in 1..Len(s) : AfterWs(i) # {}}
  IN  IF starts = {} THEN << >>
      ELSE LET w == Max(AfterWs(Min(starts)))
               c == IF ViaThe(w) # {} THEN Max(ViaThe(w)) ELSE w
           IN  << Slice(p, c, Min(CaptureEnds(c))) >>

\* a resolver that skips the search of the contents and goes by names
findComponentByContentNamesOnly(p, manifest) == findComponentFiles(p, manifest)

findComponentByContent(p, manifest) ==
  LET SearchTerms(actionMatch) ==
        QuotedStringsFrom(p, 1)
          \o (IF Len(actionMatch) > 0 THEN << trim(actionMatch[1]) >> ELSE << >>)
      FoundBy(searchTerms) ==
        {i \in DOMAIN manifest.files :
           /\ \/ includes(manifest.files[i].path, ".jsx")
              \/ includes(manifest.files[i].path, ".tsx")
           /\ \E content \in {toLowerCase(manifest.files[i].content)} :
                \E t \in DOMAIN searchTerms :
                  \E term \in {toLowerCase(searchTerms[t])} : includes(content, term)}
  IN  Only({ IF files = {} THEN findComponentFiles(p, manifest)
             ELSE << manifest.files[Min(files)].path >>
             : files \in {Only({ FoundBy(SearchTerms(actionMatch))
                                 : actionMatch \in {ActionMatch(p)} })} })

\* a context that forgets to leave out the files being edited
getSuggestedContextAll(targetFiles, manifest) == Paths(manifest)

\* a context that leaves out only the first of the files being edited
getSuggestedContextButFirst(targetFiles, manifest) ==
  LET NotFirst(file) == targetFiles = << >> \/ file # targetFiles[1]
  IN  SelectSeq(Paths(manifest), NotFirst)

getSuggestedContext(targetFiles, manifest) ==
  LET NotEdited(file) == ~SeqContains(targetFiles, file)
  IN  SelectSeq(Paths(manifest), NotEdited)

\* pattern.fileResolver(prompt, manifest) of group g
fileResolver(g, p, manifest) ==
  CASE patterns[g].type = "UPDATE_STYLE" -> findStyleFiles(p, manifest)
    [] patterns[g].type = "UPDATE_COMPONENT" -> findComponentByContent(p, manifest)
    [] patterns[g].type = "ADD_FEATURE" -> findFeatureInsertionPoints(p, manifest)
    [] patterns[g].type = "FIX_ISSUE" -> findProblemFiles(p, manifest)
    [] patterns[g].type = "REFACTOR" -> findRefactorTargets(p, manifest)
    [] patterns[g].type = "FULL_REBUILD" -> << manifest.entryPoint >>
    [] patterns[g].type = "ADD_DEPENDENCY" -> findPackageFiles(manifest)

\* confidence is counted in tenths: 5 is 0.5, 10 is 1.0
BaseConfidence == 5
FilesBonus == 2
LongPromptBonus == 1
PatternBonus == 2
MaxConfidence == 10
DefaultConfidence == 3
LongPromptWords == 5

\* a score that counts any non-empty targetFiles, [''] included
calculateConfidenceAnyFiles(p, g, targetFiles) ==
  LET withFiles == IF Len(targetFiles) > 0 THEN BaseConfidence + FilesBonus ELSE BaseConfidence
      withLength == IF Len(split(p, " ")) > LongPromptWords
                      THEN withFiles + LongPromptBonus ELSE withFiles
      confidence == IF \E r \in DOMAIN patterns[g].patterns :
                         RegexTest(patterns[g].patterns[r], p)
                      THEN withLength + PatternBonus ELSE withLength
  IN  IF confidence < MaxConfidence THEN confidence ELSE MaxConfidence

calculateConfidence(p, g, targetFiles) ==
  LET withFiles == IF Len(targetFiles) > 0 /\ targetFiles[1] # ""
                     THEN BaseConfidence + FilesBonus ELSE BaseConfidence
      withLength == IF Len(split(p, " ")) > LongPromptWords
                      THEN withFiles + LongPromptBonus ELSE withFiles
      confidence == IF \E r \in DOMAIN patterns[g].patterns :
                         RegexTest(patterns[g].patterns[r], p)
                      THEN withLength + PatternBonus ELSE withLength
  IN  IF confidence < MaxConfidence THEN confidence ELSE MaxConfidence

generateDescription(type, p, targetFiles) ==
  LET fileNames == join([i \in DOMAIN targetFiles |-> Basename(targetFiles[i])], ", ")
  IN  CASE type = "UPDATE_COMPONENT" -> "Updating component(s): " \o fileNames
        [] type = "ADD_FEATURE" -> "Adding new feature to: " \o fileNames
        [] type = "FIX_ISSUE" -> "Fixing issue in: " \o fileNames
        [] type = "UPDATE_STYLE" -> "Updating styles in: " \o fileNames
        [] type = "REFACTOR" -> "Refactoring: " \o fileNames
        [] type = "FULL_REBUILD" -> "Rebuilding entire application"
        [] type = "ADD_DEPENDENCY" -> "Adding new dependency"
        [] OTHER -> "Editing: " \o fileNames

\* the two nested loops over the groups and their expressions: the index of
\* the first group with a matching expression, 0 when the loops run out
\* (every expression has the i flag: the prompt is lower-cased once, lp)
RECURSIVE FirstMatchingGroup(_, _, _)
FirstMatchingGroup(lp, g, r) ==
  IF g > Len(patterns) THEN 0
  ELSE IF r > Len(patterns[g].patterns) THEN FirstMatchingGroup(lp, g + 1, 1)
  ELSE IF MatchesLower(patterns[g].patterns[r], lp) THEN g
  ELSE FirstMatchingGroup(lp, g, r + 1)

analyzeEditIntent(p, manifest) ==
  LET defaultTargetFiles == << manifest.entryPoint >>
      Matched(g) ==
        Only({ [type |-> patterns[g].type,
                targetFiles |-> targetFiles,
                confidence |-> calculateConfidence(p, g, targetFiles),
                description |-> generateDescription(patterns[g].type, p, targetFiles),
                suggestedContext |-> getSuggestedContext(targetFiles, manifest)]
               : targetFiles \in {fileResolver(g, p, manifest)} })
      Default ==
        [type |-> "UPDATE_COMPONENT",
         targetFiles |-> defaultTargetFiles,
         confidence |-> DefaultConfidence,
         description |-> "General update to application - no specific pattern matched",
         suggestedContext |-> getSuggestedContext(defaultTargetFiles, manifest)]
  IN  Only({ IF g # 0 THEN Matched(g) ELSE Default
             : g \in {FirstMatchingGroup(toLowerCase(p), 1, 1)} })

(***************************************************************************)
(* new RegExp(pattern, 'i'): the pattern source is parsed into a tree, or  *)
(* is a SyntaxError (Invalid).  The syntax covered: literal characters,    *)
(* . ^ $, \s \w \d and escaped punctuation, groups ( ) and (?: ),          *)
(* alternation |, classes [abc] and [^abc], and the quantifiers * + ?      *)
(* (also lazy).  A parse is [ok, re, next]: next is the position after it. *)
(***************************************************************************)
Invalid == [k |-> "invalid"]
ParseError == [ok |-> FALSE, re |-> Invalid, next |-> 0]
Parsed(re, next) == [ok |-> TRUE, re |-> re, next |-> next]

\* the character at position i, "" past the end
At(src, i) == IF i >= 1 /\ i <= Len(src) THEN CharAt(src, i) ELSE ""

Digits == {"0", "1", "2", "3", "4", "5", "6", "7", "8", "9"}
WordChars ==
  {"a","b","c","d","e","f","g","h","i","j","k","l","m","n","o","p","q","r","s",
   "t","u","v","w","x","y","z","_"} \cup Digits \cup DOMAIN UpperToLower
SpaceChars == {" ", "\t", "\n", "\r"}
Quantifiers == {"*", "+", "?"}

\* the characters of a class from position i up to the closing bracket
RECURSIVE ClassChars(_, _)
ClassChars(src, i) ==
  IF At(src, i) \in {"]", ""} THEN {}
  ELSE {toLowerCase(At(src, i))} \cup ClassChars(src, i + 1)

\* the position of the first closing bracket from i on, 0 when there is none
RECURSIVE ClassEnd(_, _)
ClassEnd(src, i) ==
  IF i > Len(src) THEN 0
  ELSE IF At(src, i) = "]" THEN i
  ELSE ClassEnd(src, i + 1)

RECURSIVE ParseDisjunction(_, _)
RECURSIVE ParseAlternative(_, _, _)
RECURSIVE ParseTerm(_, _)
RECURSIVE ParseAtom(_, _)

\* Atom: one character, an escape, a class, an assertion or a group
ParseAtom(src, i) ==
  LET c == At(src, i)
      e == At(src, i + 1)
      negated == e = "^"
      first == IF negated THEN i + 2 ELSE i + 1
  IN  CASE c = "" -> ParseError
        [] c \in Quantifiers -> ParseError               \* nothing to repeat
        [] c = ")" -> ParseError                           \* unmatched )
        [] c = "." -> Parsed(CharSet({"\n", "\r"}, TRUE), i + 1)
        [] c = "^" -> Parsed(Bos, i + 1)
        [] c = "$" -> Parsed(Eos, i + 1)
        [] c = "\\" ->
             CASE e = "" -> ParseError                     \* \ at end of pattern
               [] e = "s" -> Parsed(CharSet(SpaceChars, FALSE), i + 2)
               [] e = "w" -> Parsed(CharSet(WordChars, FALSE), i + 2)
               [] e = "d" -> Parsed(CharSet(Digits, FALSE), i + 2)
               [] OTHER -> Parsed(Lit(e), i + 2)
        [] c = "[" ->
             IF ClassEnd(src, first) = 0 THEN ParseError   \* unterminated class
             ELSE Parsed(CharSet(ClassChars(src, first), negated), ClassEnd(src, first) + 1)
        [] c = "(" ->
             Only({ IF d.ok /\ At(src, d.next) = ")" THEN Parsed(d.re, d.next + 1)
                    ELSE ParseError                        \* unterminated group
                    : d \in {ParseDisjunction(src, IF Slice(src, i + 1, i + 3) = "?:"
                                                     THEN i + 3 ELSE i + 1)} })
        [] OTHER -> Parsed(Lit(toLowerCase(c)), i + 1)

\* Term: an atom and at most one quantifier, which may be lazy
ParseTerm(src, i) ==
  Only({ IF ~a.ok THEN a
         ELSE Only({ IF q \notin Quantifiers THEN a
                     ELSE IF a.re.k \in {"bos", "eos"} THEN ParseError
                     ELSE IF At(src, after) \in Quantifiers THEN ParseError
                     ELSE Parsed(CASE q = "*" -> Star(a.re)
                                   [] q = "+" -> Plus(a.re)
                                   [] q = "?" -> Opt(a.re), after)
                     : q \in {At(src, a.next)},
                       after \in {IF At(src, a.next + 1) = "?" /\ At(src, a.next) \in Quantifiers
                                    THEN a.next + 2 ELSE a.next + 1} })
         : a \in {ParseAtom(src, i)} })

\* Alternative: terms up to the end, a | or a )
ParseAlternative(src, i, terms) ==
  IF At(src, i) \in {"", "|", ")"} THEN Parsed(Cat(terms), i)
  ELSE Only({ IF ~t.ok THEN t ELSE ParseAlternative(src, t.next, Append(terms, t.re))
              : t \in {ParseTerm(src, i)} })

\* Disjunction: alternatives separated by |
ParseDisjunction(src, i) ==
  Only({ IF ~a.ok \/ At(src, a.next) # "|" THEN a
         ELSE Only({ IF ~d.ok THEN d ELSE Parsed(Alt(<< a.re, d.re >>), d.next)
                     : d \in {ParseDisjunction(src, a.next + 1)} })
         : a \in {ParseAlternative(src, i, << >>)} })

\* new RegExp(pattern, 'i'), Invalid when the constructor throws
RegExpI(pattern) ==
  Only({ IF d.ok /\ d.next = Len(pattern) + 1 THEN d.re ELSE Invalid
         : d \in {ParseDisjunction(pattern, 1)} })

(***************************************************************************)
(* executeSearchPlan (src/lib/file-search-executor.ts).  files is the      *)
(* sequence of [path, content] entries of the files object in insertion    *)
(* order (Object.entries); an optional value is << >> when it is undefined *)
(* and << v >> when it is v.                                               *)
(***************************************************************************)
Undefined == << >>
Some(v) == << v >>

\* /\.(jsx|tsx)$/
JsxExtension == Cat(<< Lit("."), OneOf(<< "jsx", "tsx" >>), Eos >>)

determineComponentType(filePath, content) ==
  Only({ IF \/ includes(fileName, "/pages/") \/ includes(fileName, "/app/")
            \/ includes(fileName, "page.") \/ includes(fileName, "route.")
           THEN "page"
         ELSE IF \/ includes(fileName, "layout") \/ includes(fileName, "header")
                 \/ includes(fileName, "footer") \/ includes(fileName, "sidebar")
           THEN "layout"
         ELSE IF startsWith(fileName, "use") \/ includes(content, "function use")
           THEN "hook"
         ELSE IF \/ includes(fileName, "/utils/") \/ includes(fileName, "/lib/")
                 \/ includes(fileName, "/helpers/") \/ ~MatchesLower(JsxExtension, fileName)
           THEN "utility"
         ELSE "component"
         : fileName \in {toLowerCase(filePath)} })

\* /\w+\s*\([^)]*\)\s*{/
SignaturePattern ==
  Cat(<< Plus(CharSet(WordChars, FALSE)), Star(CharSet(SpaceChars, FALSE)), Lit("("),
         Star(CharSet({")"}, TRUE)), Lit(")"), Star(CharSet(SpaceChars, FALSE)), Lit("{") >>)

\* lines.slice(from - 1, to) for 1-based from and to
Lines(lines, from, to) ==
  SubSeq(lines, IF from < 1 THEN 1 ELSE from, IF to > Len(lines) THEN Len(lines) ELSE to)

SurroundingLines == 2
\* a TLA+ string cannot hold the grave accent of a template literal: file
\* contents write it as ~
Backtick == "~"
\* lineIndex is 1-based here: it is the i + 1 of the source
determineElementType(line, lineIndex, lines) ==
  LET surroundingLines ==
        Lines(lines, lineIndex - SurroundingLines, lineIndex - 1)
          \o Lines(lines, lineIndex + 1, lineIndex + SurroundingLines)
  IN  IF includes(line, "<") /\ includes(line, ">") THEN "jsx"
      ELSE IF \/ includes(line, "className") \/ includes(line, "style=")
              \/ includes(line, "tw" \o Backtick) \/ includes(line, "css" \o Backtick)
        THEN "style"
      ELSE IF includes(line, "import ") \/ includes(line, "require(") THEN "import"
      ELSE IF \/ includes(line, "useState") \/ includes(line, "useReducer")
              \/ includes(line, "const [") \/ includes(line, "this.state")
        THEN "state"
      ELSE IF \/ includes(line, "function ") \/ includes(line, "=>")
              \/ includes(line, "method") \/ MatchesLower(SignaturePattern, line)
        THEN "function"
      ELSE IF \E l \in DOMAIN surroundingLines :
                includes(surroundingLines[l], "<") /\ includes(surroundingLines[l], ">")
        THEN "jsx"
      ELSE IF \E l \in DOMAIN surroundingLines : includes(surroundingLines[l], "className")
        THEN "style"
      ELSE "undefined"

DefaultFileTypes == << ".jsx", ".tsx", ".js", ".ts" >>
\* the destructuring default of fileTypesToSearch
fileTypesToSearch(searchPlan) ==
  IF searchPlan.fileTypesToSearch = Undefined THEN DefaultFileTypes
  ELSE searchPlan.fileTypesToSearch[1]

isPriority(searchPlan, path) ==
  \E p \in DOMAIN searchPlan.priorityFiles : includes(path, searchPlan.priorityFiles[p])

\* Object.entries(files).sort(...): the sort is stable, so the priority
\* files come first and each part keeps the insertion order
sortedFiles(searchPlan, files) ==
  LET Priority(file) == isPriority(searchPlan, file.path)
      NoPriority(file) == ~isPriority(searchPlan, file.path)
  IN  SelectSeq(files, Priority) \o SelectSeq(files, NoPriority)

\* a filter that forgets the extensions
shouldSearchAnyType(searchPlan, filePath) ==
  ~\E x \in DOMAIN searchPlan.excludeFiles : includes(filePath, searchPlan.excludeFiles[x])

\* the two filters at the top of the loop over the files
shouldSearch(searchPlan, filePath) ==
  /\ ~\E x \in DOMAIN searchPlan.excludeFiles : includes(filePath, searchPlan.excludeFiles[x])
  /\ \E t \in DOMAIN fileTypesToSearch(searchPlan) :
       endsWith(filePath, fileTypesToSearch(searchPlan)[t])

\* the loop over the terms: the index of the first term the line contains,
\* case-insensitively; 0 when the loop runs out
MatchTerm(line, terms) ==
  Only({ IF \E k \in DOMAIN terms : includes(lowerLine, toLowerCase(terms[k]))
           THEN Min({k \in DOMAIN terms : includes(lowerLine, toLowerCase(terms[k]))})
           ELSE 0
         : lowerLine \in {toLowerCase(line)} })

\* a loop over the patterns that an invalid pattern ends
RECURSIVE MatchPatternAborting(_, _, _)
MatchPatternAborting(line, regexPatterns, k) ==
  IF k > Len(regexPatterns) THEN 0
  ELSE Only({ IF regex = Invalid THEN 0
              ELSE IF RegexTest(regex, line) THEN k
              ELSE MatchPatternAborting(line, regexPatterns, k + 1)
              : regex \in {RegExpI(regexPatterns[k])} })

\* the loop over the patterns from the k-th on: the index of the first valid
\* pattern that the line matches, 0 when the loop runs out; the catch block
\* goes on with the next pattern
RECURSIVE MatchPattern(_, _, _)
MatchPattern(line, regexPatterns, k) ==
  IF k > Len(regexPatterns) THEN 0
  ELSE Only({ IF regex = Invalid THEN MatchPattern(line, regexPatterns, k + 1)
              ELSE IF RegexTest(regex, line) THEN k
              ELSE MatchPattern(line, regexPatterns, k + 1)
              : regex \in {RegExpI(regexPatterns[k])} })

\* a scoring in which a match of a term starts from low, with no floor for
\* jsx and style matches
ConfidenceFromLow(line, contextAfter, matchedTerm, componentType, elementType) ==
  LET textual ==
        IF includes(line, "function") /\ includes(line, "export default") THEN "high"
        ELSE IF includes(line, "className") /\ (includes(line, "bg-") \/ includes(line, "text-"))
          THEN "high"
        ELSE IF /\ includes(line, "return")
                /\ \E l \in DOMAIN contextAfter : includes(contextAfter[l], "<")
          THEN "high"
        ELSE IF matchedTerm # Undefined /\ matchedTerm # Some("") /\ includes(line, matchedTerm[1])
          THEN "high"
        ELSE IF matchedTerm = Undefined THEN "medium"
        ELSE "low"
  IN  IF componentType \in {"page", "layout"} THEN "high" ELSE textual

\* a scoring without the boost of page and layout files
ConfidenceUnboosted(line, contextAfter, matchedTerm, componentType, elementType) ==
  LET textual ==
        IF includes(line, "function") /\ includes(line, "export default") THEN "high"
        ELSE IF includes(line, "className") /\ (includes(line, "bg-") \/ includes(line, "text-"))
          THEN "high"
        ELSE IF /\ includes(line, "return")
                /\ \E l \in DOMAIN contextAfter : includes(contextAfter[l], "<")
          THEN "high"
        ELSE IF matchedTerm # Undefined /\ matchedTerm # Some("") /\ includes(line, matchedTerm[1])
          THEN "high"
        ELSE "medium"
  IN  IF elementType \in {"jsx", "style"} /\ textual # "high" THEN "medium" ELSE textual

\* the confidence of a match; a term is truthy when it is not empty
Confidence(line, contextAfter, matchedTerm, componentType, elementType) ==
  LET textual ==
        IF includes(line, "function") /\ includes(line, "export default") THEN "high"
        ELSE IF includes(line, "className") /\ (includes(line, "bg-") \/ includes(line, "text-"))
          THEN "high"
        ELSE IF /\ includes(line, "return")
                /\ \E l \in DOMAIN contextAfter : includes(contextAfter[l], "<")
          THEN "high"
        ELSE IF matchedTerm # Undefined /\ matchedTerm # Some("") /\ includes(line, matchedTerm[1])
          THEN "high"
        ELSE "medium"
      boosted == IF componentType \in {"page", "layout"} THEN "high" ELSE textual
  IN  IF elementType \in {"jsx", "style"} /\ boosted # "high" THEN "medium" ELSE boosted

ContextLines == 5

\* a result whose line number is the 0-based index of the loop
SearchResultZeroBased(filePath, componentType, lines, i, term, pattern) ==
  Only({ [filePath |-> filePath,
          lineNumber |-> i - 1,
          lineContent |-> trim(lines[i]),
          matchedTerm |-> term,
          matchedPattern |-> pattern,
          contextBefore |-> Lines(lines, i - ContextLines, i - 1),
          contextAfter |-> Lines(lines, i + 1, i + ContextLines),
          confidence |-> Confidence(lines[i], Lines(lines, i + 1, i + ContextLines), term,
                                    componentType, elementType),
          componentType |-> componentType,
          elementType |-> elementType]
         : elementType \in {determineElementType(lines[i], i, lines)} })

\* the SearchResult pushed for the matched line i (1-based) of a file
SearchResult(filePath, componentType, lines, i, term, pattern) ==
  Only({ [filePath |-> filePath,
          lineNumber |-> i,
          lineContent |-> trim(lines[i]),
          matchedTerm |-> term,
          matchedPattern |-> pattern,
          contextBefore |-> Lines(lines, i - ContextLines, i - 1),
          contextAfter |-> Lines(lines, i + 1, i + ContextLines),
          confidence |-> Confidence(lines[i], Lines(lines, i + 1, i + ContextLines), term,
                                    componentType, elementType),
          componentType |-> componentType,
          elementType |-> elementType]
         : elementType \in {determineElementType(lines[i], i, lines)} })

\* one round of the loop over the lines: << >> or the result of line i
LineResults(filePath, componentType, lines, i, terms, regexPatterns) ==
  Only({ IF t # 0
           THEN << SearchResult(filePath, componentType, lines, i, Some(terms[t]), Undefined) >>
         ELSE Only({ IF p # 0
                       THEN << SearchResult(filePath, componentType, lines, i, Undefined,
                                            Some(regexPatterns[p])) >>
                       ELSE << >>
                     : p \in {MatchPattern(lines[i], regexPatterns, 1)} })
         : t \in {MatchTerm(lines[i], terms)} })

\* the body of the loop over the files for a file that is searched
FileResults(file, terms, regexPatterns) ==
  Only({ ConcatAll([i \in DOMAIN lines |->
                      LineResults(file.path, componentType, lines, i, terms, regexPatterns)])
         : lines \in {split(file.content, "\n")},
           componentType \in {determineComponentType(file.path, file.content)} })

\* performSearch: its results, and the number of times it counts a file
performSearch(terms, regexPatterns, searchPlan, files) ==
  LET Searched(file) == shouldSearch(searchPlan, file.path)
  IN  Only({ [results |-> ConcatAll([f \in DOMAIN searched |->
                                       FileResults(searched[f], terms, regexPatterns)]),
              filesSearched |-> Len(searched)]
             : searched \in {SelectSeq(sortedFiles(searchPlan, files), Searched)} })

\* the local variables of executeSearchPlan after the primary search
PrimaryStep(searchPlan, files) ==
  Only({ [results |-> found.results,
          filesSearched |-> found.filesSearched,
          usedFallback |-> FALSE,
          searchType |-> "exact"]
         : found \in {performSearch(searchPlan.searchTerms, searchPlan.regexPatterns,
                                    searchPlan, files)} })

\* a fallback that is tried whenever the plan has one
FallbackStepEager(st, searchPlan, files) ==
  IF searchPlan.fallbackSearch # Undefined
    THEN Only({ [results |-> st.results \o found.results,
                 filesSearched |-> st.filesSearched + found.filesSearched,
                 usedFallback |-> TRUE,
                 searchType |-> "fuzzy"]
                : found \in {performSearch(searchPlan.fallbackSearch[1].terms,
                                           searchPlan.fallbackSearch[1].regexPatterns,
                                           searchPlan, files)} })
    ELSE st

\* if (results.length === 0 && fallbackSearch) { ... }
FallbackStep(st, searchPlan, files) ==
  IF Len(st.results) = 0 /\ searchPlan.fallbackSearch # Undefined
    THEN Only({ [results |-> st.results \o found.results,
                 filesSearched |-> st.filesSearched + found.filesSearched,
                 usedFallback |-> TRUE,
                 searchType |-> "fuzzy"]
                : found \in {performSearch(searchPlan.fallbackSearch[1].terms,
                                           searchPlan.fallbackSearch[1].regexPatterns,
                                           searchPlan, files)} })
    ELSE st

\* Object.entries(semanticAlternatives)
semanticAlternatives ==
  << [concept |-> "header", alternatives |-> << "navigation", "navbar", "nav", "appbar", "top" >>],
     [concept |-> "button", alternatives |-> << "btn", "cta", "action", "link" >>],
     [concept |-> "footer", alternatives |-> << "bottom", "copyright", "social" >>],
     [concept |-> "hero", alternatives |-> << "banner", "jumbotron", "main", "landing" >>],
     [concept |-> "input",
      alternatives |-> << "field", "form control", "textbox", "text field" >>],
     [concept |-> "modal", alternatives |-> << "dialog", "popup", "overlay" >>],
     [concept |-> "card", alternatives |-> << "panel", "box", "container", "item" >>] >>

\* the semantic terms pushed for one search term
SemanticTermsOf(term) ==
  Only({ ConcatAll([c \in DOMAIN semanticAlternatives |->
                      IF includes(lowerTerm, semanticAlternatives[c].concept)
                        THEN semanticAlternatives[c].alternatives
                      ELSE IF \E a \in DOMAIN semanticAlternatives[c].alternatives :
                                includes(lowerTerm, semanticAlternatives[c].alternatives[a])
                        THEN << semanticAlternatives[c].concept >>
                      ELSE << >>])
         : lowerTerm \in {toLowerCase(term)} })

SemanticTerms(searchTerms) ==
  ConcatAll([t \in DOMAIN searchTerms |-> SemanticTermsOf(searchTerms[t])])

\* a semantic tier that reports itself as a fallback
SemanticStepAsFallback(st, searchPlan, files) ==
  IF Len(st.results) = 0
    THEN Only({ IF Len(semanticTerms) > 0
                  THEN Only({ [results |-> st.results \o found.results,
                               filesSearched |-> st.filesSearched + found.filesSearched,
                               usedFallback |-> TRUE,
                               searchType |-> "semantic"]
                              : found \in {performSearch(semanticTerms, << >>,
                                                         searchPlan, files)} })
                  ELSE [st EXCEPT !.searchType = "semantic", !.usedFallback = TRUE]
                : semanticTerms \in {SemanticTerms(searchPlan.searchTerms)} })
    ELSE st

\* a semantic tier that expands the terms of the fallback as well
SemanticStepFromFallback(st, searchPlan, files) ==
  IF Len(st.results) = 0
    THEN Only({ IF Len(semanticTerms) > 0
                  THEN Only({ [results |-> st.results \o found.results,
                               filesSearched |-> st.filesSearched + found.filesSearched,
                               usedFallback |-> st.usedFallback,
                               searchType |-> "semantic"]
                              : found \in {performSearch(semanticTerms, << >>,
                                                         searchPlan, files)} })
                  ELSE [st EXCEPT !.searchType = "semantic"]
                : semanticTerms \in
                    {SemanticTerms(searchPlan.searchTerms
                                     \o (IF searchPlan.fallbackSearch = Undefined THEN << >>
                                         ELSE searchPlan.fallbackSearch[1].terms))} })
    ELSE st

\* if (results.length === 0) { searchType = 'semantic'; ... }
SemanticStep(st, searchPlan, files) ==
  IF Len(st.results) = 0
    THEN Only({ IF Len(semanticTerms) > 0
                  THEN Only({ [results |-> st.results \o found.results,
                               filesSearched |-> st.filesSearched + found.filesSearched,
                               usedFallback |-> st.usedFallback,
                               searchType |-> "semantic"]
                              : found \in {performSearch(semanticTerms, << >>,
                                                         searchPlan, files)} })
                  ELSE [st EXCEPT !.searchType = "semantic"]
                : semanticTerms \in {SemanticTerms(searchPlan.searchTerms)} })
    ELSE st

confidenceOrder(confidence) ==
  CASE confidence = "high" -> 3 [] confidence = "medium" -> 2 [] confidence = "low" -> 1
componentTypeOrder(componentType) ==
  CASE componentType = "page" -> 5 [] componentType = "layout" -> 4
    [] componentType = "component" -> 3 [] componentType = "hook" -> 2
    [] componentType = "utility" -> 1 [] OTHER -> 0
elementTypeOrder(elementType) ==
  CASE elementType = "jsx" -> 4 [] elementType = "style" -> 3 [] elementType = "state" -> 2
    [] elementType = "function" -> 1 [] OTHER -> 0

\* the comparator of results.sort: negative when a comes before b
CompareResults(a, b) ==
  IF confidenceOrder(b.confidence) - confidenceOrder(a.confidence) # 0
    THEN confidenceOrder(b.confidence) - confidenceOrder(a.confidence)
  ELSE IF componentTypeOrder(b.componentType) - componentTypeOrder(a.componentType) # 0
    THEN componentTypeOrder(b.componentType) - componentTypeOrder(a.componentType)
  ELSE elementTypeOrder(b.elementType) - elementTypeOrder(a.elementType)

\* a sort that turns the order of equal results around
SortResultsUnstable(results) ==
  LET n == Len(results)
      Before(j, i) ==
        \/ CompareResults(results[j], results[i]) < 0
        \/ CompareResults(results[j], results[i]) = 0 /\ j > i
  IN  [r \in 1..n |->
         results[CHOOSE i \in 1..n : Cardinality({j \in 1..n : Before(j, i)}) = r - 1]]

\* results.sort(comparator): Array.prototype.sort is stable, equal results
\* keep their order
SortResults(results) ==
  LET n == Len(results)
      Before(j, i) ==
        \/ CompareResults(results[j], results[i]) < 0
        \/ CompareResults(results[j], results[i]) = 0 /\ j < i
  IN  [r \in 1..n |->
         results[CHOOSE i \in 1..n : Cardinality({j \in 1..n : Before(j, i)}) = r - 1]]

NoMatchesError == "No matches found for search terms"

\* the returned object; executionTime is the difference of two readings of
\* the clock
SearchExecutionResult(st, executionTime) ==
  Only({ [success |-> Len(results) > 0,
          results |-> SortResults(results),
          filesSearched |-> st.filesSearched,
          executionTime |-> executionTime,
          usedFallback |-> st.usedFallback,
          searchType |-> st.searchType,
          error |-> IF Len(results) = 0 THEN Some(NoMatchesError) ELSE Undefined]
         : results \in {st.results} })

executeSearchPlan(searchPlan, files, executionTime) ==
  Only({ Only({ Only({ SearchExecutionResult(afterSemantic, executionTime)
                       : afterSemantic \in {SemanticStep(afterFallback, searchPlan, files)} })
                : afterFallback \in {FallbackStep(afterPrimary, searchPlan, files)} })
         : afterPrimary \in {PrimaryStep(searchPlan, files)} })

(***************************************************************************)
(* selectTargetFile (src/lib/file-search-executor.ts).  Array.find is the  *)
(* head of the filtered array; null is the record Null.                    *)
(***************************************************************************)
Null == [null |-> TRUE]

Target(result, reason) ==
  [filePath |-> result.filePath, lineNumber |-> result.lineNumber, reason |-> reason]

\* a selection that gives up when editType is none of the types it has a rule for
selectTargetFileOrNull(results, editType) ==
  IF Len(results) = 0 \/ editType \notin {"UPDATE_STYLE", "REMOVE_ELEMENT", "ADD_FEATURE"}
    THEN Null
    ELSE Target(results[1], "Highest confidence match")

\* a selection without type-specific rules: always the best-ranked result
selectTargetFileByRank(results, editType) ==
  IF Len(results) = 0 THEN Null
  ELSE Target(results[1],
              "Highest confidence match (" \o results[1].confidence \o ") in "
                \o results[1].componentType \o " " \o results[1].elementType)

selectTargetFile(results, editType) ==
  LET InComponentFile(r) == endsWith(r.filePath, ".jsx") \/ endsWith(r.filePath, ".tsx")
      styleResult ==
        SelectSeq(results, LAMBDA r : r.elementType = "style" /\ InComponentFile(r))
      componentResult == SelectSeq(results, InComponentFile)
      jsxResult == SelectSeq(results, LAMBDA r : r.elementType = "jsx")
      renderResult ==
        SelectSeq(results,
                  LAMBDA r : \/ includes(r.lineContent, "return")
                             \/ \E l \in DOMAIN r.contextAfter : includes(r.contextAfter[l], "<"))
      pageResult == SelectSeq(results, LAMBDA r : r.componentType = "page")
      layoutResult == SelectSeq(results, LAMBDA r : r.componentType = "layout")
      best == results[1]
      componentType == IF best.componentType \in {"", "undefined"} THEN "component"
                       ELSE best.componentType
      elementType == IF best.elementType \in {"", "undefined"} THEN "code" ELSE best.elementType
  IN  IF Len(results) = 0 THEN Null
      ELSE IF editType = "UPDATE_STYLE" /\ styleResult # << >>
        THEN Target(styleResult[1], "Found component with Tailwind classes to update")
      ELSE IF editType = "UPDATE_STYLE" /\ componentResult # << >>
        THEN Target(componentResult[1], "Found component that likely contains styles to update")
      ELSE IF (editType = "REMOVE_ELEMENT" \/ includes(editType, "DELETE")) /\ jsxResult # << >>
        THEN Target(jsxResult[1], "Found JSX element to remove in component")
      ELSE IF (editType = "REMOVE_ELEMENT" \/ includes(editType, "DELETE"))
              /\ renderResult # << >>
        THEN Target(renderResult[1],
                    "Found component render method containing element to remove")
      ELSE IF editType = "ADD_FEATURE" /\ pageResult # << >>
        THEN Target(pageResult[1], "Found page component where feature should be added")
      ELSE IF editType = "ADD_FEATURE" /\ layoutResult # << >>
        THEN Target(layoutResult[1], "Found layout component where feature should be added")
      ELSE Target(best,
                  "Highest confidence match (" \o best.confidence \o ") in "
                    \o componentType \o " " \o elementType)

(***************************************************************************)
(* The rate-limiting middleware (src/unnamed/part_011).  Times are in      *)
(* milliseconds.  rateLimitMap is a function from the keys it holds to     *)
(* functions from the tiers they hold to [count, resetTime] records; a     *)
(* request is [pathname, forwarded, ip, upgrade, connection], the headers  *)
(* being optional values; a set of headers is a function from names to     *)
(* strings.                                                                *)
(***************************************************************************)
RATE_LIMIT_WINDOW == 60 * 1000

RATE_LIMITS ==
  [ai_generation |-> [limit |-> 10, window |-> RATE_LIMIT_WINDOW],
   code_application |-> [limit |-> 20, window |-> RATE_LIMIT_WINDOW],
   sandbox |-> [limit |-> 5, window |-> RATE_LIMIT_WINDOW],
   status |-> [limit |-> 20, window |-> RATE_LIMIT_WINDOW],
   default |-> [limit |-> 10, window |-> RATE_LIMIT_WINDOW]]

EmptyMap == [k \in {} |-> 0]

getRateLimitKey(request) ==
  IF request.forwarded # Undefined /\ request.forwarded[1] # ""
    THEN split(request.forwarded[1], ",")[1]
  ELSE IF request.ip # Undefined /\ request.ip[1] # "" THEN request.ip[1]
  ELSE "unknown"

getEndpointTier(pathname) ==
  IF \/ includes(pathname, "/generate-ai-code") \/ includes(pathname, "/classify-intent")
     \/ includes(pathname, "/analyze-edit-intent")
    THEN "ai_generation"
  ELSE IF includes(pathname, "/apply-ai-code") \/ includes(pathname, "/detect-and-install-packages")
    THEN "code_application"
  ELSE IF \/ includes(pathname, "/create-ai-sandbox") \/ includes(pathname, "/kill-sandbox")
          \/ includes(pathname, "/install-packages") \/ includes(pathname, "/restart-vite")
    THEN "sandbox"
  ELSE IF \/ includes(pathname, "/sandbox-status") \/ includes(pathname, "/conversation-state")
          \/ includes(pathname, "/check-vite-errors")
    THEN "status"
  ELSE "default"

\* a check that counts a rejected request as well
checkRateLimitCountingRejections(map, key, tier, time) ==
  LET config == RATE_LIMITS[tier]
      ipLimits == IF key \in DOMAIN map THEN map[key] ELSE EmptyMap
      withKey == [k \in DOMAIN map \cup {key} |-> IF k = key THEN ipLimits ELSE map[k]]
      Set(record) ==
        [withKey EXCEPT ![key] =
           [t \in DOMAIN ipLimits \cup {tier} |-> IF t = tier THEN record ELSE ipLimits[t]]]
  IN  IF tier \notin DOMAIN ipLimits \/ time > ipLimits[tier].resetTime
        THEN [allowed |-> TRUE, remaining |-> config.limit - 1, limit |-> config.limit,
              rateLimitMap |-> Set([count |-> 1, resetTime |-> time + config.window])]
      ELSE IF ipLimits[tier].count >= config.limit
        THEN [allowed |-> FALSE, remaining |-> 0, limit |-> config.limit,
              rateLimitMap |-> Set([ipLimits[tier] EXCEPT !.count = @ + 1])]
      ELSE [allowed |-> TRUE, remaining |-> config.limit - (ipLimits[tier].count + 1),
            limit |-> config.limit,
            rateLimitMap |-> Set([ipLimits[tier] EXCEPT !.count = @ + 1])]

\* a limiter that opens a window for a new record only, never for a record
\* whose window is over
checkRateLimitNeverResetting(map, key, tier, time) ==
  LET config == RATE_LIMITS[tier]
      ipLimits == IF key \in DOMAIN map THEN map[key] ELSE EmptyMap
      withKey == [k \in DOMAIN map \cup {key} |-> IF k = key THEN ipLimits ELSE map[k]]
      Set(record) ==
        [withKey EXCEPT ![key] =
           [t \in DOMAIN ipLimits \cup {tier} |-> IF t = tier THEN record ELSE ipLimits[t]]]
  IN  IF tier \notin DOMAIN ipLimits
        THEN [allowed |-> TRUE, remaining |-> config.limit - 1, limit |-> config.limit,
              rateLimitMap |-> Set([count |-> 1, resetTime |-> time + config.window])]
      ELSE IF ipLimits[tier].count >= config.limit
        THEN [allowed |-> FALSE, remaining |-> 0, limit |-> config.limit,
              rateLimitMap |-> withKey]
      ELSE [allowed |-> TRUE, remaining |-> config.limit - (ipLimits[tier].count + 1),
            limit |-> config.limit,
            rateLimitMap |-> Set([ipLimits[tier] EXCEPT !.count = @ + 1])]

\* the value returned, and the map as the call leaves it
checkRateLimit(map, key, tier, time) ==
  LET config == RATE_LIMITS[tier]
      ipLimits == IF key \in DOMAIN map THEN map[key] ELSE EmptyMap
      withKey == [k \in DOMAIN map \cup {key} |-> IF k = key THEN ipLimits ELSE map[k]]
      Set(record) ==
        [withKey EXCEPT ![key] =
           [t \in DOMAIN ipLimits \cup {tier} |-> IF t = tier THEN record ELSE ipLimits[t]]]
  IN  IF tier \notin DOMAIN ipLimits \/ time > ipLimits[tier].resetTime
        THEN [allowed |-> TRUE, remaining |-> config.limit - 1, limit |-> config.limit,
              rateLimitMap |-> Set([count |-> 1, resetTime |-> time + config.window])]
      ELSE IF ipLimits[tier].count >= config.limit
        THEN [allowed |-> FALSE, remaining |-> 0, limit |-> config.limit,
              rateLimitMap |-> withKey]
      ELSE [allowed |-> TRUE, remaining |-> config.limit - (ipLimits[tier].count + 1),
            limit |-> config.limit,
            rateLimitMap |-> Set([ipLimits[tier] EXCEPT !.count = @ + 1])]

\* the callback of setInterval: the map without the records whose window is
\* over and without the keys that are left with no record
cleanUpOldEntries(map, time) ==
  LET Live(key) == {t \in DOMAIN map[key] : ~(time > map[key][t].resetTime)}
  IN  [key \in {k \in DOMAIN map : Live(k) # {}} |-> [t \in Live(key) |-> map[key][t]]]

SecurityHeaders ==
  ("X-DNS-Prefetch-Control" :> "on")
    @@ ("Strict-Transport-Security" :> "max-age=63072000; includeSubDomains; preload")
    @@ ("X-Frame-Options" :> "SAMEORIGIN")
    @@ ("X-Content-Type-Options" :> "nosniff")
    @@ ("X-XSS-Protection" :> "1; mode=block")
    @@ ("Referrer-Policy" :> "strict-origin-when-cross-origin")
    @@ ("Permissions-Policy" :> "camera=(), microphone=(), geolocation=(), interest-cohort=()")
    @@ ("Content-Security-Policy" :>
          join(<< "default-src 'self'", "script-src 'self' 'unsafe-inline'",
                  "style-src 'self' 'unsafe-inline'", "img-src 'self' data: https: blob:",
                  "font-src 'self' data:",
                  "connect-src 'self' https://*.e2b.app https://*.e2b.dev https://*.firecrawl.dev https://*.anthropic.com https://*.openai.com https://*.googleapis.com https://*.groq.com https://*.tambo.co wss://*.e2b.app wss://*.e2b.dev",
                  "frame-src 'self' https://*.e2b.app https://*.e2b.dev", "object-src 'none'",
                  "base-uri 'self'", "form-action 'self'", "frame-ancestors 'self'",
                  "upgrade-insecure-requests" >>, "; "))

\* a middleware that rate-limits the WebSocket upgrades like any request
middlewareLimitingUpgrades(request, map, time) ==
  LET tier == getEndpointTier(request.pathname)
      check == checkRateLimit(map, getRateLimitKey(request), tier, time)
  IN  IF ~startsWith(request.pathname, "/api/")
        THEN [response |-> [next |-> TRUE, headers |-> SecurityHeaders], rateLimitMap |-> map]
      ELSE IF ~check.allowed
        THEN [response |-> [next |-> FALSE, status |-> 429,
                            headers |-> ("Retry-After" :> "60")],
              rateLimitMap |-> check.rateLimitMap]
      ELSE [response |-> [next |-> TRUE, headers |-> ("X-RateLimit-Tier" :> tier)],
            rateLimitMap |-> check.rateLimitMap]

\* the response, and the map as the call leaves it; next is TRUE for
\* NextResponse.next() and FALSE for NextResponse.json(body, {status, headers})
middleware(request, map, time) ==
  LET isWebSocketUpgrade ==
        \/ request.upgrade # Undefined /\ toLowerCase(request.upgrade[1]) = "websocket"
        \/ request.connection # Undefined
             /\ includes(toLowerCase(request.connection[1]), "upgrade")
      tier == getEndpointTier(request.pathname)
      check == checkRateLimit(map, getRateLimitKey(request), tier, time)
  IN  IF ~startsWith(request.pathname, "/api/")
        THEN [response |-> [next |-> TRUE, headers |-> SecurityHeaders], rateLimitMap |-> map]
      ELSE IF isWebSocketUpgrade
        THEN [response |-> [next |-> TRUE, headers |-> ("X-WebSocket-Exempt" :> "true")],
              rateLimitMap |-> map]
      ELSE IF ~check.allowed
        THEN [response |->
                [next |-> FALSE, status |-> 429,
                 body |-> [error |-> "Rate limit exceeded. Please try again later.",
                           tier |-> tier, limit |-> check.limit, retryAfter |-> 60],
                 headers |->
                   ("Retry-After" :> "60")
                     @@ ("X-RateLimit-Limit" :> ToString(check.limit))
                     @@ ("X-RateLimit-Remaining" :> "0")
                     @@ ("X-RateLimit-Reset" :> ToString(time + RATE_LIMIT_WINDOW))
                     @@ ("X-RateLimit-Tier" :> tier)],
              rateLimitMap |-> check.rateLimitMap]
      ELSE [response |->
              [next |-> TRUE,
               headers |->
                 ("X-RateLimit-Limit" :> ToString(check.limit))
                   @@ ("X-RateLimit-Remaining" :> ToString(check.remaining))
                   @@ ("X-RateLimit-Tier" :> tier)],
            rateLimitMap |-> check.rateLimitMap]

(***************************************************************************)
(* Inputs of the model: manifests and prompts.                             *)
(***************************************************************************)
FileRecord(path, content, lastModified, name) ==
  [path |-> path, content |-> content, lastModified |-> lastModified,
   hasComponentInfo |-> name # "", componentName |-> name]

Manifests ==
  LET AppFile == FileRecord("src/App.jsx", "<Hero />", 1, "App")
      HeaderFile == FileRecord("src/components/Header.jsx", "<nav>Home</nav>", 2, "Header")
      HeroFile ==
        FileRecord("src/components/Hero.jsx",
                   "<button>Start Deploying</button>\nconst label = 'start deploying'", 3, "Hero")
      CssFile == FileRecord("src/index.css", "body {}", 1, "")
      HeaderCssFile == FileRecord("src/header.css", "nav {}", 4, "")
      PackageFile == FileRecord("package.json", "{}", 1, "")
      TailwindFile == FileRecord("tailwind.config.js", "{}", 1, "")
      RouterFile == FileRecord("src/router.jsx", "createBrowserRouter([])", 5, "")
      NavbarFile == FileRecord("src/components/Navbar.jsx", "<nav />", 2, "Navbar")
      HeaderBarFile == FileRecord("src/components/HeaderBar.jsx", "<h2 />", 2, "HeaderBar")
  IN  { [entryPoint |-> "src/App.jsx",
         files |-> << AppFile, HeaderFile, HeroFile, CssFile, PackageFile, TailwindFile >>,
         styleFiles |-> << "src/index.css" >>],
        [entryPoint |-> "src/App.jsx",
         files |-> << HeroFile, AppFile >>,
         styleFiles |-> << >>],
        [entryPoint |-> "src/App.jsx",
         files |-> << HeaderCssFile, RouterFile, HeaderFile, AppFile >>,
         styleFiles |-> << "src/header.css" >>],
        [entryPoint |-> "src/App.jsx", files |-> << >>, styleFiles |-> << >>],
        [entryPoint |-> "src/App.jsx",
         files |-> << NavbarFile, HeaderBarFile, HeaderFile, AppFile >>,
         styleFiles |-> << >>],
        [entryPoint |-> "", files |-> << HeroFile >>, styleFiles |-> << >>] }

\* the prompts of the scenarios, single words, and every verb with every object
Prompts ==
  LET PromptVerbs == {"make", "fix", "install", "add", "remove", "Update"}
      PromptObjects == {"header", "blue", "axios", "routing", "page", "button"}
  IN
  {"", "hello", "make the header blue", "update the header component style",
   "update the header component", "change the hero background",
   "remove start deploying button", "remove the 'Start Deploying' button",
   "delete  ", "add a videos page", "add a new pricing page", "create a contact section",
   "add footer to the header", "implement form handling", "build a login feature",
   "fix the broken header", "resolve the error", "refactor the hero",
   "start over", "rebuild the app from scratch", "install axios please now right away",
   "add axios package", "integrate stripe", "edit the header style",
   "please make the hero section mobile friendly", "change the title text to Welcome",
   "edit the header and make it blue", "fix  the  broken header",
   "hide Start Deploying text", "delete home link", "hide hero section", "delete nav element",
   "remove pricing section", "refactor headers", "refactor the navigation",
   "refactor the header"}
    \cup PromptVerbs \cup PromptObjects
    \cup {v \o " " \o o : v \in PromptVerbs, o \in PromptObjects}

\* the prompt of the other requests of a session
FollowUpPrompts == {"install axios"}

NoIntent == [type |-> "none"]
NoCall == [prompt |-> "", called |-> FALSE]

\* the manifest object as analyzeEditIntent and its resolvers leave it: they
\* read it and build their lists in fresh arrays (files = [], [...new Set()],
\* Object.entries(...).sort on a copy), and assign to none of its fields
\* findStyleFiles building its list in manifest.styleFiles itself
\* (const files = manifest.styleFiles) instead of in a fresh array
manifestAfterAnalyzeAliased(p, m) ==
  IF analyzeEditIntent(p, m).type = "UPDATE_STYLE"
    THEN [m EXCEPT !.styleFiles = findStyleFiles(p, m)]
    ELSE m

manifestAfterAnalyze(p, m) == m

(***************************************************************************)
(* Inputs of the model: files and search plans.  The fields editType,      *)
(* reasoning and expectedMatches of a plan are left out: executeSearchPlan *)
(* does not read them.                                                     *)
(***************************************************************************)
SourceFile(path, content) == [path |-> path, content |-> content]

FileSets ==
  LET HeroSource ==
        SourceFile("src/components/Hero.jsx",
                   "export default function Hero() {\n  return (\n    <button>Start Deploying</button>\n  )\n}")
      HeaderSource ==
        SourceFile("src/components/Header.jsx",
                   "<nav className=\"bg-white\">\n  <a>Home</a>\n</nav>")
      HomePageSource ==
        SourceFile("src/pages/Home.jsx",
                   "const title = 'home'\n  btn primary  \nreturn (\n  <main>Landing</main>\n)")
      FormatSource ==
        SourceFile("src/utils/format.js",
                   "import x from 'y'\nconst home = () => 1\n\thome btn x\r")
      AboutSource == SourceFile("src/app/about.jsx", "<main>home</main>")
      ToggleSource == SourceFile("use-toggle.ts", "const [on, setOn] = useState(false)\n")
      StyleSource == SourceFile("src/index.css", "nav { top: 0 }")
  IN  { << AboutSource, HeroSource, HeaderSource, HomePageSource, FormatSource >>,
        << FormatSource, ToggleSource, StyleSource, HeroSource >>,
        << >> }

SearchPlans ==
  [searchTerms :
     { << >>, << "start deploying" >>, << "Home", "btn" >>, << "header" >>, << "zzz" >>,
       << "" >> },
   regexPatterns : { << >>, << "(", "btn\\s+\\w+" >>, << "</?nav", "*", "^return" >> },
   fallbackSearch :
     { Undefined,
       Some([terms |-> << "deploying" >>, regexPatterns |-> << >>]),
       Some([terms |-> << "qqq" >>, regexPatterns |-> << "[", "home$" >>]) },
   priorityFiles : { << >>, << "pages", "utils" >> },
   excludeFiles : { << >>, << "Hero" >> },
   fileTypesToSearch : { Undefined, Some(<< ".jsx", ".css" >>) }]
  \cup
  \* plans for the semantic tier: a term that holds a concept and one of its
  \* alternatives, and a fallback term that is an alternative of a concept
  { [searchTerms |-> terms, regexPatterns |-> << >>, fallbackSearch |-> fallbackSearch,
     priorityFiles |-> << >>, excludeFiles |-> << >>, fileTypesToSearch |-> Undefined]
    : terms \in { << "header nav" >>, << "zzz" >> },
      fallbackSearch \in { Some([terms |-> << "jumbotron" >>, regexPatterns |-> << >>]) } }

(***************************************************************************)
(* Inputs of the model: result arrays for selectTargetFile.  Each result   *)
(* is the SearchResult that performSearch builds for a line of a file; an  *)
(* array holds up to MaxResults of them, in any order.                     *)
(***************************************************************************)
MaxResults == 3

SelectableResults ==
  LET Card == << "<div", "  className=\"p-4\"", ">", "  <b>Start</b>", "</div>" >>
      Page == << "export default function Home() {", "  return (", "    <main>Start</main>",
                 "  )", "}" >>
      Result(path, lines, i, term) ==
        SearchResult(path, determineComponentType(path, join(lines, "\n")), lines, i,
                     Some(term), Undefined)
  IN  { Result("src/components/Card.jsx", Card, 2, "P-4"),
        Result("src/components/Card.jsx", Card, 4, "Start"),
        Result("src/index.css", << ".start { top: 0 }" >>, 1, "start"),
        Result("src/pages/Home.tsx", Page, 2, "return"),
        Result("src/utils/format.js", << "return start" >>, 1, "START"),
        Result("src/components/Header.js", << "let start" >>, 1, "start") }

ResultArrays == UNION { [1..n -> SelectableResults] : n \in 0..MaxResults }

SelectEditTypes ==
  {"UPDATE_STYLE", "REMOVE_ELEMENT", "DELETE_COMPONENT", "ADD_FEATURE", "UPDATE_COMPONENT", ""}

NotSelected == [reason |-> "none"]

(***************************************************************************)
(* Inputs of the model: requests to the middleware.                        *)
(***************************************************************************)
Requests ==
  LET Request(pathname, forwarded, ip, upgrade, connection) ==
        [pathname |-> pathname, forwarded |-> forwarded, ip |-> ip, upgrade |-> upgrade,
         connection |-> connection]
      Proxied == Some("10.0.0.1, 172.16.0.1")
      Direct == Some("10.0.0.2")
  IN  { Request("/api/generate-ai-code", Proxied, Undefined, Undefined, Undefined),
        Request("/api/create-ai-sandbox", Proxied, Undefined, Undefined, Some("keep-alive")),
        Request("/api/kill-sandbox", Proxied, Undefined, Undefined, Undefined),
        Request("/api/conversation-state", Proxied, Undefined, Undefined, Undefined),
        Request("/api/create-ai-sandbox", Proxied, Undefined, Undefined,
                Some("keep-alive, Upgrade")),
        Request("/", Proxied, Undefined, Undefined, Undefined),
        Request("/api/create-ai-sandbox", Undefined, Direct, Undefined, Undefined),
        Request("/api/create-ai-sandbox", Undefined, Direct, Some("WebSocket"),
                Some("Upgrade")) }

NoRequest == [pathname |-> ""]
NoResponse == [next |-> FALSE, status |-> 0]

\* the kind of operation a request asks for, for the per-minute limits
Category(request) ==
  IF getEndpointTier(request.pathname) \in {"ai_generation", "code_application"}
    THEN getEndpointTier(request.pathname)
  ELSE IF includes(request.pathname, "/create-ai-sandbox") THEN "sandbox_creation"
  ELSE "other"

NothingSent ==
  [key \in {getRateLimitKey(r) : r \in Requests} |->
     [c \in {"ai_generation", "code_application", "sandbox_creation"} |-> 0]]

(***************************************************************************)
(* The conversation-state route.  global.conversationState is null or a    *)
(* ConversationState.  null and undefined values are << >>, a value v that *)
(* may be null is << v >>; a field the request data does not have is a key *)
(* missing from the record.  A handler is an operator from the state and   *)
(* its inputs to the new state and the JSON response.                      *)
(***************************************************************************)
MAX_MESSAGES == 100

\* array.slice(0, n), the first n elements instead of the last
sliceFirst(array, n) ==
  IF Len(array) <= n THEN array ELSE SubSeq(array, 1, n)

\* array.slice(-n)
sliceLast(array, n) ==
  IF Len(array) <= n THEN array ELSE SubSeq(array, Len(array) - n + 1, Len(array))

Json(status, body) == [status |-> status, body |-> body]

\* the object the add-message and update-sandbox actions initialise the state with
NewConversation(time) ==
  [conversationId |-> "conv-" \o ToString(time),
   startedAt |-> time,
   lastUpdated |-> time,
   context |-> [messages |-> << >>,
                edits |-> << >>,
                currentTopic |-> Undefined,
                projectEvolution |-> [majorChanges |-> << >>],
                userPreferences |-> EmptyMap,
                sandboxState |-> Undefined]]

\* as NewSandboxState, with an empty string for the sandbox id
NewSandboxStateEmptyId(time) ==
  [sandboxId |-> Some(""), url |-> Undefined, createdAt |-> time, lastModified |-> time,
   modifications |-> << >>]

NewSandboxState(time) ==
  [sandboxId |-> Undefined, url |-> Undefined, createdAt |-> time, lastModified |-> time,
   modifications |-> << >>]

GET(state) ==
  IF state = Null
    THEN Json(200, [success |-> TRUE, state |-> Null, message |-> "No active conversation"])
  ELSE Json(200, [success |-> TRUE, state |-> state])

Malformed == [malformed |-> TRUE]

\* time is Date.now() and random the digits of Math.random().toString(36)
POST(state, body, time, random) ==
  LET Answer(newState, status, json) ==
        [conversationState |-> newState, response |-> Json(status, json)]
      data == body.data
      Has(field) == data # Undefined /\ field \in DOMAIN data[1]
      initialised == IF state = Null THEN NewConversation(time) ELSE state
  IN  IF body = Malformed
        \* request.json() rejects and the catch block answers
        THEN Answer(state, 500, [success |-> FALSE, error |-> "Unexpected end of JSON input"])
      ELSE IF body.action = "reset"
        THEN LET sandboxState == IF state = Null THEN Undefined ELSE state.context.sandboxState
                 oldSandboxId ==
                   IF sandboxState # Undefined /\ sandboxState[1].sandboxId \notin {Undefined, Some("")}
                     THEN sandboxState[1].sandboxId
                   ELSE Undefined
                 fresh == [NewConversation(time) EXCEPT
                             !.context.sandboxState = Some(NewSandboxState(time))]
             IN  Answer(fresh, 200,
                        [success |-> TRUE, message |-> "Conversation state reset",
                         state |-> fresh, previousSandboxId |-> oldSandboxId])
      ELSE IF body.action = "clear-old"
        THEN IF state = Null
               THEN Answer(state, 400,
                           [success |-> FALSE, error |-> "No active conversation to clear"])
             ELSE LET cleared ==
                        [state EXCEPT
                           !.context.messages = sliceLast(@, 5),
                           !.context.edits = sliceLast(@, 3),
                           !.context.projectEvolution.majorChanges = sliceLast(@, 2)]
                  IN  Answer(cleared, 200,
                             [success |-> TRUE, message |-> "Old conversation data cleared",
                              state |-> cleared])
      ELSE IF body.action = "update"
        THEN IF state = Null
               THEN Answer(state, 400,
                           [success |-> FALSE, error |-> "No active conversation to update"])
             ELSE LET topic ==
                        IF Has("currentTopic") /\ data[1].currentTopic # ""
                          THEN Some(data[1].currentTopic)
                        ELSE state.context.currentTopic
                      preferences ==
                        IF Has("userPreferences")
                          THEN data[1].userPreferences @@ state.context.userPreferences
                        ELSE state.context.userPreferences
                      updated ==
                        IF data = Undefined THEN state
                        ELSE [state EXCEPT !.context.currentTopic = topic,
                                           !.context.userPreferences = preferences,
                                           !.lastUpdated = time]
                  IN  Answer(updated, 200,
                             [success |-> TRUE, message |-> "Conversation state updated",
                              state |-> updated])
      ELSE IF body.action = "add-message"
        THEN IF ~Has("message")
               THEN Answer(initialised, 400,
                           [success |-> FALSE, error |-> "Message data is required"])
             ELSE LET given == data[1].message
                      message ==
                        [id |-> IF given.id \notin {Undefined, Some("")} THEN given.id[1]
                                ELSE "msg-" \o ToString(time) \o "-" \o random,
                         role |-> given.role,
                         content |-> given.content,
                         timestamp |-> IF given.timestamp \notin {Undefined, Some(0)}
                                         THEN given.timestamp[1]
                                       ELSE time,
                         metadata |-> IF given.metadata # Undefined THEN given.metadata[1]
                                      ELSE EmptyMap]
                      pushed == Append(initialised.context.messages, message)
                      added ==
                        [initialised EXCEPT
                           !.context.messages =
                             IF Len(pushed) > MAX_MESSAGES THEN sliceLast(pushed, MAX_MESSAGES)
                             ELSE pushed,
                           !.lastUpdated = time]
                  IN  Answer(added, 200,
                             [success |-> TRUE,
                              message |-> "Message added to conversation history",
                              messageId |-> message.id,
                              totalMessages |-> Len(added.context.messages)])
      ELSE IF body.action = "update-sandbox"
        THEN IF data = Undefined
               THEN Answer(initialised, 400,
                           [success |-> FALSE, error |-> "Sandbox data is required"])
             ELSE LET before ==
                        IF initialised.context.sandboxState = Undefined
                          THEN NewSandboxState(time)
                        ELSE initialised.context.sandboxState[1]
                      sandboxState ==
                        [sandboxId |-> IF Has("sandboxId") THEN data[1].sandboxId
                                       ELSE before.sandboxId,
                         url |-> IF Has("url") THEN data[1].url ELSE before.url,
                         createdAt |-> before.createdAt,
                         lastModified |-> time,
                         modifications |->
                           IF Has("modification")
                             THEN Append(before.modifications,
                                         [timestamp |-> time,
                                          type |-> data[1].modification.type,
                                          description |-> data[1].modification.description,
                                          files |-> data[1].modification.files,
                                          packages |-> data[1].modification.packages])
                           ELSE before.modifications]
                  IN  Answer([initialised EXCEPT !.context.sandboxState = Some(sandboxState),
                                                 !.lastUpdated = time],
                             200,
                             [success |-> TRUE, message |-> "Sandbox state updated",
                              sandboxState |-> sandboxState])
      ELSE Answer(state, 400,
                  [success |-> FALSE,
                   error |-> "Invalid action. Use \"reset\", \"update\", \"clear-old\", \"add-message\", or \"update-sandbox\""])

DELETE(state) ==
  [conversationState |-> Null,
   response |-> Json(200, [success |-> TRUE, message |-> "Conversation state cleared"])]

(***************************************************************************)
(* Inputs of the model: request bodies for the conversation-state route.   *)
(***************************************************************************)
Bodies ==
  LET Body(action, data) == [action |-> action, data |-> data]
      Message(id, role, content, timestamp, metadata) ==
        [id |-> id, role |-> role, content |-> content, timestamp |-> timestamp,
         metadata |-> metadata]
  IN  { Malformed,
        Body("reset", Undefined),
        Body("clear-old", Undefined),
        Body("update", Undefined),
        Body("update", Some([currentTopic |-> "header styling",
                             userPreferences |-> [editStyle |-> "targeted"]])),
        Body("add-message", Some([role |-> "user"])),
        Body("add-message",
             Some([message |-> Message(Some("msg-a"), "user", "make the header blue", Some(5),
                                       Some([editType |-> "UPDATE_STYLE"]))])),
        Body("add-message",
             Some([message |-> Message(Undefined, "assistant", "Done.", Undefined, Undefined)])),
        Body("update-sandbox", Undefined),
        Body("update-sandbox", Some([sandboxId |-> Some("sbx-1"),
                                     url |-> Some("https://sbx-1.e2b.app")])),
        Body("update-sandbox", Some([sandboxId |-> Some("")])),
        Body("update-sandbox",
             Some([sandboxId |-> Undefined,
                   modification |-> [type |-> "file_update", description |-> "Edited Hero.jsx",
                                     files |-> Some(<< "src/components/Hero.jsx" >>),
                                     packages |-> Undefined]])),
        Body("archive", Undefined) }

\* the values Math.random().toString(36).substr(2, 9) takes in the model
Randoms == {"k3j9x0q2m", "a81zc5t7p"}

NoCallYet == [method |-> ""]
NoReply == [status |-> 0]

NoPlan == [searchTerms |-> << >>]
NotExecuted == [searchType |-> "none"]
NoManifest == [entryPoint |-> ""]

VARIABLES
  prompt,      \* the prompt of the current request
  manifest,    \* the manifest object the caller passes by reference
  intent,      \* the EditIntent returned for the current request, or NoIntent
  calls,       \* number of analyzeEditIntent calls made in this session
  others,      \* how many of them had another prompt than the first call
  first,       \* the first call of the session: its inputs and its result
  searchPlan,  \* the plan passed to executeSearchPlan
  files,       \* the files passed to executeSearchPlan
  execution,   \* the SearchExecutionResult returned, or NotExecuted
  results,     \* the results array passed to selectTargetFile
  editType,    \* the editType passed to selectTargetFile
  target,      \* the value selectTargetFile returned, or NotSelected
  rateLimitMap, \* the middleware's map of rate-limit records
  now,         \* Date.now(), in milliseconds since the module was loaded
  cleaned,     \* the time of the last run of the clean-up interval
  request,     \* the last request the middleware handled, or NoRequest
  response,    \* the response it gave, or NoResponse
  handled,     \* the number of requests handled
  sent,        \* per key and category, the rate-limited requests received
  conversationState, \* global.conversationState of the conversation-state route
  call,        \* the last call of the route, or NoCallYet
  reply,       \* the response to it, or NoReply
  stored,      \* the messages add-message has stored since the last reset or DELETE
  callsServed, \* the number of calls the route has served for the clients at large
  project      \* the position and the result of startNewProjectWithSandbox

intentVars == << prompt, manifest, intent, calls, others, first >>
searchVars == << searchPlan, files, execution >>
selectVars == << results, editType, target >>
limitVars == << rateLimitMap, now, cleaned, request, response, handled, sent >>
conversationVars == << conversationState, call, reply, stored, callsServed, project >>
vars == << intentVars, searchVars, selectVars, limitVars, conversationVars >>

\* the parts of the state an operation does not use
IntentIdle ==
  /\ prompt = ""
  /\ manifest = NoManifest
  /\ intent = NoIntent
  /\ calls = 0
  /\ others = 0
  /\ first = NoCall
SearchIdle == searchPlan = NoPlan /\ files = << >> /\ execution = NotExecuted
SelectIdle == results = << >> /\ editType = "" /\ target = NotSelected
LimitIdle ==
  /\ rateLimitMap = EmptyMap
  /\ now = 0
  /\ cleaned = 0
  /\ request = NoRequest
  /\ response = NoResponse
  /\ handled = 0
  /\ sent = NothingSent
NotStarted == [at |-> "idle"]

ConversationIdle ==
  /\ conversationState = Null
  /\ call = NoCallYet
  /\ reply = NoReply
  /\ stored = << >>
  /\ callsServed = 0
  /\ project = NotStarted

MaxCalls == 3

InitIntent ==
  /\ prompt \in Prompts
  /\ manifest \in Manifests
  /\ intent = NoIntent
  /\ calls = 0
  /\ others = 0
  /\ first = NoCall
  /\ SearchIdle
  /\ SelectIdle
  /\ LimitIdle
  /\ ConversationIdle

\* const editIntent = analyzeEditIntent(userPrompt, manifest)
Analyze ==
  /\ intent = NoIntent
  /\ calls < MaxCalls
  /\ intent' = analyzeEditIntent(prompt, manifest)
  /\ manifest' = manifestAfterAnalyze(prompt, manifest)
  /\ calls' = calls + 1
  /\ others' = IF calls > 0 /\ prompt # first.prompt THEN others + 1 ELSE others
  /\ first' = IF calls = 0
                THEN [prompt |-> prompt, called |-> TRUE, manifest |-> manifest,
                      intent |-> intent']
                ELSE first
  /\ UNCHANGED << prompt, searchVars, selectVars, limitVars, conversationVars >>

\* the caller's next request in the same session, over the same manifest
NextRequest ==
  /\ intent # NoIntent
  /\ calls < MaxCalls
  /\ prompt' \in FollowUpPrompts \cup {first.prompt}
  /\ intent' = NoIntent
  /\ UNCHANGED << manifest, calls, others, first, searchVars, selectVars, limitVars, conversationVars >>

NextIntent == Analyze \/ NextRequest
SpecIntent == InitIntent /\ [][NextIntent]_vars

MaxExecutionTime == 1

InitSearch ==
  /\ searchPlan \in SearchPlans
  /\ files \in FileSets
  /\ execution = NotExecuted
  /\ IntentIdle
  /\ SelectIdle
  /\ LimitIdle
  /\ ConversationIdle

\* const result = executeSearchPlan(searchPlan, files)
ExecuteSearch ==
  /\ execution = NotExecuted
  /\ \E executionTime \in 0..MaxExecutionTime :
       execution' = executeSearchPlan(searchPlan, files, executionTime)
  /\ UNCHANGED << searchPlan, files, intentVars, selectVars, limitVars, conversationVars >>

NextSearch == ExecuteSearch
SpecSearch == InitSearch /\ [][NextSearch]_vars

InitSelect ==
  /\ results \in ResultArrays
  /\ editType \in SelectEditTypes
  /\ target = NotSelected
  /\ IntentIdle
  /\ SearchIdle
  /\ LimitIdle
  /\ ConversationIdle

\* const target = selectTargetFile(results, editType)
SelectTarget ==
  /\ target = NotSelected
  /\ target' = selectTargetFile(results, editType)
  /\ UNCHANGED << results, editType, intentVars, searchVars, limitVars, conversationVars >>

NextSelect == SelectTarget
SpecSelect == InitSelect /\ [][NextSelect]_vars

MaxRequests == 2
MaxClockSteps == 2
\* the clock advances by a window at a time
ClockStep == RATE_LIMIT_WINDOW

\* the map after n requests to the sandbox tier from the proxied client, all
\* at time 0
RECURSIVE AfterSandboxRequests(_)
AfterSandboxRequests(n) ==
  IF n = 0 THEN EmptyMap
  ELSE checkRateLimit(AfterSandboxRequests(n - 1), "10.0.0.1", "sandbox", 0).rateLimitMap

\* the module has been loaded and the proxied client has made no request, or
\* has used the sandbox tier up to one request below its limit or up to its
\* limit, with all or none of the requests for /api/create-ai-sandbox
InitLimit ==
  /\ \E served \in {0, RATE_LIMITS.sandbox.limit - 1, RATE_LIMITS.sandbox.limit} :
       /\ rateLimitMap = AfterSandboxRequests(served)
       /\ \E created \in {0, served} :
            sent = [NothingSent EXCEPT !["10.0.0.1"]["sandbox_creation"] = created]
  /\ now = 0
  /\ cleaned = 0
  /\ request = NoRequest
  /\ response = NoResponse
  /\ handled = 0
  /\ IntentIdle
  /\ SearchIdle
  /\ SelectIdle
  /\ ConversationIdle

\* a request arrives and the middleware answers it
HandleRequest ==
  /\ handled < MaxRequests
  /\ \E r \in Requests :
       /\ request' = r
       /\ \E answer \in {middleware(r, rateLimitMap, now)} :
            /\ response' = answer.response
            /\ rateLimitMap' = answer.rateLimitMap
       /\ sent' = IF startsWith(r.pathname, "/api/")
                     /\ "X-WebSocket-Exempt" \notin DOMAIN response'.headers
                     /\ Category(r) # "other"
                    THEN [sent EXCEPT ![getRateLimitKey(r)][Category(r)] = @ + 1]
                    ELSE sent
  /\ handled' = handled + 1
  /\ UNCHANGED << now, cleaned, intentVars, searchVars, selectVars, conversationVars >>

\* time passes
Tick ==
  /\ now < MaxClockSteps * ClockStep
  /\ now' = now + ClockStep
  /\ UNCHANGED << rateLimitMap, cleaned, request, response, handled, sent, intentVars,
                  searchVars, selectVars, conversationVars >>

\* setInterval(..., RATE_LIMIT_WINDOW): the callback runs when a window's
\* time has passed since its last run, or later
CleanUp ==
  /\ now >= cleaned + RATE_LIMIT_WINDOW
  /\ rateLimitMap' = cleanUpOldEntries(rateLimitMap, now)
  /\ cleaned' = now
  /\ UNCHANGED << now, request, response, handled, sent, intentVars, searchVars, selectVars, conversationVars >>

NextLimit == HandleRequest \/ Tick \/ CleanUp
SpecLimit == InitLimit /\ [][NextLimit]_vars

MaxRouteCalls == 3
\* the numbers of messages the conversation holds when the model starts
InitialMessages == {0, 5, MAX_MESSAGES}

\* the conversation after n add-message calls at time 0, or null for n = 0;
\* a run of calls is made as two runs, one after the other
AfterMessages(n) ==
  LET Add(state, k) ==
        POST(state,
             [action |-> "add-message",
              data |-> Some([message |->
                               [id |-> Some("msg-" \o ToString(k)),
                                role |-> IF k % 2 = 1 THEN "user" ELSE "assistant",
                                content |-> "message " \o ToString(k),
                                timestamp |-> Undefined,
                                metadata |-> Undefined]])],
             0, "").conversationState
      RECURSIVE AddAll(_, _, _)
      AddAll(state, from, upTo) ==
        IF from > upTo THEN state
        ELSE IF from = upTo THEN Add(state, from)
        ELSE Only({ AddAll(half, (from + upTo) \div 2 + 1, upTo)
                    : half \in {AddAll(state, from, (from + upTo) \div 2)} })
  IN  AddAll(Null, 1, n)

\* the edits and the major changes that the code generation route, which
\* shares global.conversationState, has recorded in a conversation
RecordedEdits ==
  [n \in 1..4 |->
     [timestamp |-> 0, userRequest |-> "message " \o ToString(2 * n - 1),
      editType |-> "UPDATE_COMPONENT", targetFiles |-> << "src/App.jsx" >>, confidence |-> 9,
      outcome |-> "success"]]
RecordedChanges ==
  [n \in 1..3 |->
     [timestamp |-> 0, description |-> "message " \o ToString(2 * n - 1),
      filesAffected |-> << "src/App.jsx" >>]]

\* the server has started and the client has had some messages stored, with
\* or without edits recorded for them
InitConversation ==
  /\ \E n \in InitialMessages :
       /\ \E state \in
               {AfterMessages(n)} \cup
               (IF n = 0 THEN {}
                ELSE {[AfterMessages(n) EXCEPT
                         !.context.edits = RecordedEdits,
                         !.context.projectEvolution.majorChanges = RecordedChanges]}) :
            conversationState = state
       /\ stored = IF n = 0 THEN << >> ELSE AfterMessages(n).context.messages
  /\ call = NoCallYet
  /\ reply = NoReply
  /\ callsServed = 0
  /\ project = NotStarted
  /\ IntentIdle
  /\ SearchIdle
  /\ SelectIdle
  /\ LimitIdle

Get ==
  /\ callsServed < MaxRouteCalls
  /\ call' = [method |-> "GET"]
  /\ reply' = GET(conversationState)
  /\ callsServed' = callsServed + 1
  /\ UNCHANGED << conversationState, stored, project, intentVars, searchVars, selectVars, limitVars >>

Post ==
  /\ callsServed < MaxRouteCalls
  /\ \E body \in Bodies, random \in Randoms :
       /\ call' = [method |-> "POST", body |-> body]
       /\ \E answer \in {POST(conversationState, body, now, random)} :
            /\ conversationState' = answer.conversationState
            /\ reply' = answer.response
            /\ stored' =
                 IF body = Malformed THEN stored
                 ELSE IF body.action = "reset" THEN << >>
                 ELSE IF body.action = "add-message" /\ answer.response.status = 200
                   THEN Append(stored,
                               answer.conversationState.context.messages[
                                 Len(answer.conversationState.context.messages)])
                 ELSE stored
  /\ callsServed' = callsServed + 1
  /\ UNCHANGED << project, intentVars, searchVars, selectVars, limitVars >>

Delete ==
  /\ callsServed < MaxRouteCalls
  /\ call' = [method |-> "DELETE"]
  /\ \E answer \in {DELETE(conversationState)} :
       /\ conversationState' = answer.conversationState
       /\ reply' = answer.response
  /\ stored' = << >>
  /\ callsServed' = callsServed + 1
  /\ UNCHANGED << project, intentVars, searchVars, selectVars, limitVars >>

NextConversation == Get \/ Post \/ Delete \/ Tick
SpecConversation == InitConversation /\ [][NextConversation]_vars

(***************************************************************************)
(* startNewProjectWithSandbox, the client's workflow for a new project.    *)
(* Each await of a fetch is one step; between two steps the route serves   *)
(* the calls of other clients.                                             *)
(***************************************************************************)

\* the files create-ai-sandbox tracks in global.existingFiles
InitialFiles ==
  << "src/App.jsx", "src/main.jsx", "src/index.css", "index.html", "package.json",
     "vite.config.js", "tailwind.config.js", "postcss.config.js" >>

\* updateSandbox of lib/server/conversation-state, which create-ai-sandbox
\* calls: it writes sandboxId, sandboxUrl and sandboxState at the top level of
\* the conversation state and leaves context.sandboxState alone
updateSandbox(state, data, time) ==
  LET initialised == IF state = Null THEN NewConversation(time) ELSE state
      withId ==
        IF data.sandboxId \notin {Undefined, Some("")}
          THEN [sandboxId |-> data.sandboxId[1]] @@ initialised
          ELSE initialised
      withUrl ==
        IF data.url \notin {Undefined, Some("")}
          THEN [sandboxUrl |-> data.url[1]] @@ withId
          ELSE withId
      tracked ==
        IF "sandboxState" \in DOMAIN withUrl THEN withUrl.sandboxState
        ELSE [modifications |-> << >>, dependencies |-> << >>, errors |-> << >>]
      withModification ==
        IF data.modification # Undefined
          THEN [sandboxState |->
                  [tracked EXCEPT !.modifications = Append(@, data.modification[1])]]
               @@ withUrl
          ELSE withUrl
  IN  [lastUpdated |-> time] @@ withModification

\* the ids Sandbox.create gives a sandbox; without one the route uses the time
SandboxIds == {Some("sbx-2"), Undefined}

\* the response of POST /api/create-ai-sandbox and the conversation state it
\* leaves, for a sandbox with the given id; failed: Sandbox.create or the
\* set-up threw
CreateAiSandbox(state, id, failed, time) ==
  IF failed
    THEN [conversationState |-> state,
          response |-> Json(500, [error |-> "Failed to create sandbox"])]
    ELSE LET sandboxId == IF id \notin {Undefined, Some("")} THEN id[1] ELSE ToString(time)
             url == "https://" \o sandboxId \o ".e2b.app"
         IN  [conversationState |->
                updateSandbox(state,
                              [sandboxId |-> Some(sandboxId), url |-> Some(url),
                               modification |->
                                 Some([type |-> "config_change",
                                       description |->
                                         "Sandbox created with Vite + React + Tailwind",
                                       files |-> InitialFiles])],
                              time),
              response |-> Json(200, [success |-> TRUE, sandboxId |-> sandboxId, url |-> url,
                                      status |-> "ready"])]

\* startNewProject: the reset request.  Not delivered: fetch threw or the
\* request was answered without success before reaching the route.
StartNewProject ==
  /\ project.at = "idle"
  /\ \E delivered \in BOOLEAN :
       IF delivered
         THEN \E random \in Randoms :
                LET body == [action |-> "reset", data |-> Undefined]
                IN  \E answer \in {POST(conversationState, body, now, random)} :
                      /\ conversationState' = answer.conversationState
                      /\ call' = [method |-> "POST", body |-> body]
                      /\ reply' = answer.response
                      /\ stored' = << >>
                      /\ project' =
                           IF answer.response.body.success
                             THEN [at |-> "create",
                                   previousSandboxId |-> answer.response.body.previousSandboxId]
                             ELSE [at |-> "done", result |-> [success |-> FALSE]]
         ELSE /\ project' = [at |-> "done", result |-> [success |-> FALSE]]
              /\ UNCHANGED << conversationState, call, reply, stored >>
  /\ UNCHANGED << callsServed, intentVars, searchVars, selectVars, limitVars >>

\* createNewProjectSandbox up to its check of the create-ai-sandbox result
CreateNewProjectSandbox ==
  /\ project.at = "create"
  /\ \E id \in SandboxIds, failed \in BOOLEAN :
       \E answer \in {CreateAiSandbox(conversationState, id, failed, now)} :
         /\ conversationState' = answer.conversationState
         /\ project' =
              IF answer.response.status = 200 /\ answer.response.body.success
                THEN [at |-> "update", previousSandboxId |-> project.previousSandboxId,
                      sandboxId |-> answer.response.body.sandboxId,
                      url |-> answer.response.body.url]
                ELSE [at |-> "done",
                      result |-> [success |-> FALSE,
                                  previousSandboxId |-> project.previousSandboxId]]
  /\ UNCHANGED << call, reply, stored, callsServed, intentVars, searchVars, selectVars,
                  limitVars >>

\* updateSandboxState(result.sandboxId, result.url): the update-sandbox
\* request; createNewProjectSandbox awaits it and drops what it returns
UpdateSandboxState ==
  /\ project.at = "update"
  /\ \E delivered \in BOOLEAN :
       IF delivered
         THEN \E random \in Randoms :
                LET body == [action |-> "update-sandbox",
                             data |-> Some([sandboxId |-> Some(project.sandboxId),
                                            url |-> Some(project.url)])]
                IN  \E answer \in {POST(conversationState, body, now, random)} :
                      /\ conversationState' = answer.conversationState
                      /\ call' = [method |-> "POST", body |-> body]
                      /\ reply' = answer.response
         ELSE UNCHANGED << conversationState, call, reply >>
  /\ project' = [project EXCEPT !.at = "return"]
  /\ UNCHANGED << stored, callsServed, intentVars, searchVars, selectVars, limitVars >>

\* the return of createNewProjectSandbox and of startNewProjectWithSandbox
ReturnProject ==
  /\ project.at = "return"
  /\ project' = [at |-> "done",
                 result |-> [success |-> TRUE, sandboxId |-> project.sandboxId,
                             url |-> project.url,
                             previousSandboxId |-> project.previousSandboxId]]
  /\ UNCHANGED << conversationState, call, reply, stored, callsServed, intentVars,
                  searchVars, selectVars, limitVars >>

NextProject ==
  StartNewProject \/ CreateNewProjectSandbox \/ UpdateSandboxState \/ ReturnProject \/ Post
SpecProject == InitConversation /\ [][NextProject]_vars

(***************************************************************************)
(* Properties of analyzeEditIntent.                                        *)
(***************************************************************************)
Returned == intent # NoIntent

\* some expression of the group of type t matches the prompt
GroupMatches(t, p) ==
  \E g \in DOMAIN patterns :
    /\ patterns[g].type = t
    /\ \E r \in DOMAIN patterns[g].patterns : RegexTest(patterns[g].patterns[r], p)

\* C1: for every prompt and manifest the returned intent has a type of the
\* closed set of seven and a non-empty targetFiles list
C1_TypedWithNonEmptyTargets ==
  Returned => intent.type \in EditType /\ Len(intent.targetFiles) > 0

\* the order in which the groups are to be consulted
GroupOrder ==
  << "UPDATE_STYLE", "UPDATE_COMPONENT", "ADD_FEATURE", "FIX_ISSUE", "REFACTOR", "FULL_REBUILD",
     "ADD_DEPENDENCY" >>

\* C2: the returned type is that of the first group, in the order UPDATE_STYLE,
\* UPDATE_COMPONENT, ADD_FEATURE, FIX_ISSUE, REFACTOR, FULL_REBUILD,
\* ADD_DEPENDENCY, that has an expression matching the prompt; in particular
\* a prompt matching both a style and a component expression is UPDATE_STYLE
C2_FirstMatchingGroupWins ==
  Returned =>
    \A k \in DOMAIN GroupOrder :
      ( /\ GroupMatches(GroupOrder[k], prompt)
        /\ \A j \in 1..(k - 1) : ~GroupMatches(GroupOrder[j], prompt) )
        => intent.type = GroupOrder[k]

C2_Witness ==
  /\ Returned
  /\ GroupMatches("UPDATE_STYLE", prompt)
  /\ GroupMatches("UPDATE_COMPONENT", prompt)
  /\ intent.type = "UPDATE_STYLE"

NoGroupMatches(p) == \A k \in DOMAIN GroupOrder : ~GroupMatches(GroupOrder[k], p)

\* C4: when no expression of any group matches the prompt, the result is
\* UPDATE_COMPONENT with confidence 0.3, targetFiles [entryPoint] and, as
\* suggestedContext, every manifest path other than entryPoint
C4_DefaultIntent ==
  (Returned /\ NoGroupMatches(prompt)) =>
    /\ intent.type = "UPDATE_COMPONENT"
    /\ intent.confidence = 3
    /\ intent.targetFiles = << manifest.entryPoint >>
    /\ intent.suggestedContext =
         SelectSeq(Paths(manifest), LAMBDA path : path # manifest.entryPoint)

C4_Witness ==
  /\ Returned
  /\ prompt = ""
  /\ NoGroupMatches(prompt)
  /\ Len(manifest.files) > 1
  /\ \E i \in DOMAIN manifest.files : manifest.files[i].path = manifest.entryPoint

(***************************************************************************)
(* Properties of executeSearchPlan.                                        *)
(***************************************************************************)
Executed == execution # NotExecuted
HasFallback == searchPlan.fallbackSearch # Undefined

\* what each tier of the ladder finds when it is run on the plan and files
PrimaryMatches ==
  performSearch(searchPlan.searchTerms, searchPlan.regexPatterns, searchPlan, files).results
FallbackMatches ==
  performSearch(searchPlan.fallbackSearch[1].terms, searchPlan.fallbackSearch[1].regexPatterns,
                searchPlan, files).results
SemanticMatches ==
  IF Len(SemanticTerms(searchPlan.searchTerms)) > 0
    THEN performSearch(SemanticTerms(searchPlan.searchTerms), << >>, searchPlan, files).results
    ELSE << >>

\* the files a search scans
Searchable == {f \in DOMAIN files : shouldSearch(searchPlan, files[f].path)}

\* two result lists hold the same results, in whatever order
SameResults(a, b) ==
  /\ Len(a) = Len(b)
  /\ \A i \in DOMAIN a : \E j \in DOMAIN b : a[i] = b[j]
  /\ \A j \in DOMAIN b : \E i \in DOMAIN a : a[i] = b[j]

IsNoMatchResult ==
  /\ execution.success = FALSE
  /\ execution.results = << >>
  /\ execution.error # Undefined
  /\ execution.error # Some("")

\* C5 as stated: when the primary terms and patterns match no line and the
\* plan has no fallbackSearch, the result is the no-match result and no later
\* tier is attempted: usedFallback is false and searchType is still 'exact'
C5_NoMatchEndsLadder ==
  (Executed /\ Len(PrimaryMatches) = 0 /\ ~HasFallback) =>
    /\ IsNoMatchResult
    /\ execution.usedFallback = FALSE
    /\ execution.searchType = "exact"

\* C5 (amended): when the primary terms and patterns match no line and the
\* plan has no fallbackSearch, the fallback tier is not attempted (usedFallback
\* is false) but the semantic tier is (searchType is 'semantic'); the result is
\* the no-match result (success false, results empty, a non-empty error)
\* exactly when the semantic expansion of the search terms matches no line
\* either, and otherwise it holds the semantic matches
C5_NoMatchWithoutFallback ==
  (Executed /\ Len(PrimaryMatches) = 0 /\ ~HasFallback) =>
    /\ execution.usedFallback = FALSE
    /\ execution.searchType = "semantic"
    /\ IsNoMatchResult <=> Len(SemanticMatches) = 0
    /\ Len(SemanticMatches) > 0 =>
         /\ execution.success = TRUE
         /\ SameResults(execution.results, SemanticMatches)
         /\ execution.error = Undefined

\* the semantic tier ran, on a searchable file, and found nothing
C5_Witness ==
  /\ Executed
  /\ Len(PrimaryMatches) = 0
  /\ ~HasFallback
  /\ Len(SemanticTerms(searchPlan.searchTerms)) > 0
  /\ Searchable # {}
  /\ IsNoMatchResult
  /\ execution.searchType = "semantic"

\* C6: the ladder goes on to a later tier only when the tier before found
\* nothing: a primary search with a match returns exactly the primary matches
\* with usedFallback false and searchType 'exact' after one scan of the files;
\* an empty primary search and a fallback with a match return exactly the
\* fallback matches with usedFallback true and searchType 'fuzzy' after two
\* scans; searchType is 'semantic' only when both found nothing
C6_LadderAdvancesOnlyOnEmpty ==
  Executed =>
    /\ Len(PrimaryMatches) > 0 =>
         /\ SameResults(execution.results, PrimaryMatches)
         /\ execution.usedFallback = FALSE
         /\ execution.searchType = "exact"
         /\ execution.filesSearched = Cardinality(Searchable)
    /\ (Len(PrimaryMatches) = 0 /\ HasFallback /\ Len(FallbackMatches) > 0) =>
         /\ SameResults(execution.results, FallbackMatches)
         /\ execution.usedFallback = TRUE
         /\ execution.searchType = "fuzzy"
         /\ execution.filesSearched = 2 * Cardinality(Searchable)
    /\ execution.searchType = "semantic" =>
         /\ Len(PrimaryMatches) = 0
         /\ HasFallback => Len(FallbackMatches) = 0

\* a plan whose fallback would match although its primary search already did
C6_Witness ==
  /\ Executed
  /\ Len(PrimaryMatches) > 0
  /\ HasFallback
  /\ Len(FallbackMatches) > 0
  /\ ~SameResults(PrimaryMatches, FallbackMatches)
  /\ execution.searchType = "exact"

\* the entry of files with the given path, and the line a result points at
FileAt(path) == files[CHOOSE f \in DOMAIN files : files[f].path = path]
LinesOf(path) == split(FileAt(path).content, "\n")

\* C7: every returned result whose file determineComponentType classifies as
\* page or layout has confidence 'high', whatever its line, its element type
\* and the way it matched
C7_PageAndLayoutAreHigh ==
  Executed =>
    \A i \in DOMAIN execution.results :
      determineComponentType(execution.results[i].filePath,
                             FileAt(execution.results[i].filePath).content)
          \in {"page", "layout"}
        => execution.results[i].confidence = "high"

\* a result in a page, matched by a pattern on a line that scores 'medium'
\* when the kind of file is left out
C7_Witness ==
  /\ Executed
  /\ \E i \in DOMAIN execution.results :
       /\ execution.results[i].componentType = "page"
       /\ execution.results[i].matchedPattern # Undefined
       /\ execution.results[i].lineContent = "btn primary"
       /\ ConfidenceUnboosted("  btn primary  ", execution.results[i].contextAfter,
                              execution.results[i].matchedTerm,
                              execution.results[i].componentType,
                              execution.results[i].elementType) = "medium"
       /\ execution.results[i].confidence = "high"

\* the sort key of a result: the ranks of confidence, componentType, elementType
SortKey(r) ==
  << CASE r.confidence = "high" -> 3 [] r.confidence = "medium" -> 2 [] r.confidence = "low" -> 1,
     CASE r.componentType = "page" -> 5 [] r.componentType = "layout" -> 4
       [] r.componentType = "component" -> 3 [] r.componentType = "hook" -> 2
       [] r.componentType = "utility" -> 1,
     CASE r.elementType = "jsx" -> 4 [] r.elementType = "style" -> 3
       [] r.elementType = "state" -> 2 [] r.elementType = "function" -> 1
       [] r.elementType \in {"import", "undefined"} -> 0 >>

\* the place of a result in the scan: priority files first, then the order
\* of the files, then the line number
ScanPlace(r) ==
  << IF isPriority(searchPlan, r.filePath) THEN 0 ELSE 1,
     CHOOSE f \in DOMAIN files : files[f].path = r.filePath,
     r.lineNumber >>

\* a triple comes before another one in the lexicographic order
LexLess(a, b) ==
  \/ a[1] < b[1]
  \/ a[1] = b[1] /\ a[2] < b[2]
  \/ a[1] = b[1] /\ a[2] = b[2] /\ a[3] < b[3]

\* C8: the key (confidence rank, componentType rank, elementType rank) never
\* increases from a returned result to the next, and of two neighbours with
\* equal keys the one scanned first comes first
C8_SortedAndStable ==
  Executed =>
    \A i \in 1..(Len(execution.results) - 1) :
      /\ ~LexLess(SortKey(execution.results[i]), SortKey(execution.results[i + 1]))
      /\ SortKey(execution.results[i]) = SortKey(execution.results[i + 1])
           => LexLess(ScanPlace(execution.results[i]), ScanPlace(execution.results[i + 1]))

\* the sort moved a result, the keys do fall somewhere, and two neighbours
\* with equal keys come from files that the priority list swapped
C8_Witness ==
  /\ Executed
  /\ execution.results # PrimaryMatches
  /\ \E i \in 1..(Len(execution.results) - 1) :
       LexLess(SortKey(execution.results[i + 1]), SortKey(execution.results[i]))
  /\ \E i \in 1..(Len(execution.results) - 1) :
       /\ SortKey(execution.results[i]) = SortKey(execution.results[i + 1])
       /\ ScanPlace(execution.results[i])[2] > ScanPlace(execution.results[i + 1])[2]

\* C9: the lineNumber of every returned result is a line of its file, counted
\* from 1, and its lineContent is that line without the surrounding whitespace
C9_LineNumberAndContent ==
  Executed =>
    \A i \in DOMAIN execution.results :
      /\ execution.results[i].lineNumber \in 1..Len(LinesOf(execution.results[i].filePath))
      /\ execution.results[i].lineContent =
           trim(LinesOf(execution.results[i].filePath)[execution.results[i].lineNumber])

\* a result on a later line of its file that has whitespace around it
C9_Witness ==
  /\ Executed
  /\ \E i \in DOMAIN execution.results :
       /\ execution.results[i].lineNumber > 1
       /\ execution.results[i].lineContent = "btn primary"
       /\ LinesOf(execution.results[i].filePath)[execution.results[i].lineNumber]
            = "  btn primary  "

\* a list without its k-th element
Without(seq, k) == SubSeq(seq, 1, k - 1) \o SubSeq(seq, k + 1, Len(seq))
InvalidPatterns(regexPatterns) ==
  {k \in DOMAIN regexPatterns : RegExpI(regexPatterns[k]) = Invalid}

\* the plans that are the searchPlan without one of its invalid patterns
PlansWithoutOneInvalidPattern ==
  {[searchPlan EXCEPT !.regexPatterns = Without(searchPlan.regexPatterns, k)]
     : k \in InvalidPatterns(searchPlan.regexPatterns)}
  \cup
  (IF HasFallback
     THEN {[searchPlan EXCEPT !.fallbackSearch =
              Some([terms |-> searchPlan.fallbackSearch[1].terms,
                    regexPatterns |-> Without(searchPlan.fallbackSearch[1].regexPatterns, k)])]
             : k \in InvalidPatterns(searchPlan.fallbackSearch[1].regexPatterns)}
     ELSE {})

\* C10: an invalid pattern in regexPatterns or in fallbackSearch.patterns is
\* skipped: the search returns what it returns for the plan without that
\* pattern (the same results, success, usedFallback and searchType)
C10_InvalidPatternIsSkipped ==
  Executed =>
    \A plan \in PlansWithoutOneInvalidPattern :
      LET other == executeSearchPlan(plan, files, execution.executionTime)
      IN  /\ execution.results = other.results
          /\ execution.success = other.success
          /\ execution.usedFallback = other.usedFallback
          /\ execution.searchType = other.searchType

\* a result matched by a valid pattern that is listed after an invalid one
C10_Witness ==
  /\ Executed
  /\ \E i \in DOMAIN execution.results :
       \E k \in InvalidPatterns(searchPlan.regexPatterns) :
         \E n \in (k + 1)..Len(searchPlan.regexPatterns) :
           execution.results[i].matchedPattern = Some(searchPlan.regexPatterns[n])

(***************************************************************************)
(* Properties of selectTargetFile.                                         *)
(***************************************************************************)
Selected == target # NotSelected

\* the target names the file and line of the result at index i
IsTargetOf(i) ==
  /\ target # Null
  /\ target.filePath = results[i].filePath
  /\ target.lineNumber = results[i].lineNumber

\* C11: selectTargetFile returns null exactly when results is empty; for every
\* non-empty results array and every editType, known or not, it returns a
\* {filePath, lineNumber, reason} value naming one of the results
C11_NullOnlyWhenEmpty ==
  Selected =>
    /\ target = Null <=> Len(results) = 0
    /\ Len(results) > 0 =>
         /\ DOMAIN target = {"filePath", "lineNumber", "reason"}
         /\ \E i \in DOMAIN results : IsTargetOf(i)

C11_Witness ==
  /\ Selected
  /\ Len(results) = MaxResults
  /\ editType = ""
  /\ IsTargetOf(1)

InComponentFile(i) ==
  endsWith(results[i].filePath, ".jsx") \/ endsWith(results[i].filePath, ".tsx")

StyleInComponentFile(i) == results[i].elementType = "style" /\ InComponentFile(i)

\* C12: for UPDATE_STYLE the target is the first result with elementType
\* 'style' in a .jsx/.tsx file when there is one, whatever the confidence of
\* results[0]; otherwise the first result in a .jsx/.tsx file; otherwise
\* results[0]
C12_StyleResultPreferred ==
  (Selected /\ editType = "UPDATE_STYLE" /\ Len(results) > 0) =>
    IF \E i \in DOMAIN results : StyleInComponentFile(i)
      THEN IsTargetOf(Min({i \in DOMAIN results : StyleInComponentFile(i)}))
    ELSE IF \E i \in DOMAIN results : InComponentFile(i)
      THEN IsTargetOf(Min({i \in DOMAIN results : InComponentFile(i)}))
    ELSE IsTargetOf(1)

C12_Witness ==
  /\ Selected
  /\ editType = "UPDATE_STYLE"
  /\ Len(results) > 1
  /\ results[1].elementType = "jsx"
  /\ results[1].confidence = "high"
  /\ results[2].confidence = "medium"
  /\ StyleInComponentFile(2)
  /\ IsTargetOf(2)
  /\ ~IsTargetOf(1)

(***************************************************************************)
(* Further properties of analyzeEditIntent.  Confidence is in tenths.      *)
(***************************************************************************)
Matched == Returned /\ ~NoGroupMatches(prompt)

\* 1 when the condition holds and 0 when it does not
Indicator(condition) == IF condition THEN 1 ELSE 0

\* the words of a prompt: its maximal runs of characters other than spaces
WordCount(p) == Len(SelectSeq(split(p, " "), LAMBDA w : w # ""))

\* C13 as stated: on a match the confidence is min(1.0, 0.5 + 0.2 when
\* targetFiles is non-empty + 0.1 when the prompt has more than 5 words + 0.2
\* when an expression of the matched group matches the prompt again), so it
\* lies in [0, 1] and is at least 0.5
C13_ConfidenceOfNonEmptyTargets ==
  Matched =>
    /\ intent.confidence =
         Min({10, 5 + 2 * Indicator(Len(intent.targetFiles) > 0)
                    + Indicator(WordCount(prompt) > 5)
                    + 2 * Indicator(GroupMatches(intent.type, prompt))})
    /\ intent.confidence \in 5..10

\* C13, amended: the 0.2 for the files is added when targetFiles is non-empty
\* and its first element is not the empty string, and the 0.1 when
\* prompt.split(' ') has more than 5 elements; the rest is as stated
C13_ConfidenceOfNamedTargets ==
  Matched =>
    /\ intent.confidence =
         Min({10, 5 + 2 * Indicator(Len(intent.targetFiles) > 0 /\ intent.targetFiles[1] # "")
                    + Indicator(Len(split(prompt, " ")) > 5)
                    + 2 * Indicator(GroupMatches(intent.type, prompt))})
    /\ intent.confidence \in 5..10

C13_Witness ==
  /\ Matched
  /\ intent.targetFiles = << "" >>
  /\ WordCount(prompt) > 5
  /\ intent.confidence = 8

Elements(seq) == {seq[i] : i \in DOMAIN seq}

\* C14: in every returned intent suggestedContext is the set of the keys of
\* manifest.files that are not in targetFiles: the two lists are disjoint and
\* every manifest path is in one of them
C14_ContextIsTheRest ==
  Returned =>
    /\ Elements(intent.suggestedContext) =
         Elements(Paths(manifest)) \ Elements(intent.targetFiles)
    /\ Elements(intent.suggestedContext) \cap Elements(intent.targetFiles) = {}
    /\ Elements(Paths(manifest)) \subseteq
         Elements(intent.suggestedContext) \cup Elements(intent.targetFiles)

C14_Witness ==
  /\ Returned
  /\ Len(intent.targetFiles) > 1
  /\ Elements(intent.targetFiles) \subseteq Elements(Paths(manifest))
  /\ Len(intent.suggestedContext) > 1

\* the prompts "remove|delete|hide <phrase> button|link|text|element|section"
RemovalPhrases == {"start deploying", "Start Deploying", "home", "hero", "nav", "pricing"}

IsRemovalOf(p, phrase) ==
  \E verb \in {"remove", "delete", "hide"} :
    \E noun \in {"button", "link", "text", "element", "section"} :
      p = verb \o " " \o phrase \o " " \o noun

ContainsPhrase(text, phrase) == includes(toLowerCase(text), toLowerCase(phrase))

\* the .jsx/.tsx files of the manifest that contain the phrase
FilesContaining(phrase) ==
  {i \in DOMAIN manifest.files :
     /\ endsWith(manifest.files[i].path, ".jsx") \/ endsWith(manifest.files[i].path, ".tsx")
     /\ ContainsPhrase(manifest.files[i].content, phrase)}

\* the results of a search for the phrase over one file of the manifest
SearchFor(phrase, file) ==
  executeSearchPlan([searchTerms |-> << phrase >>, regexPatterns |-> << >>,
                     fallbackSearch |-> Undefined, priorityFiles |-> << >>,
                     excludeFiles |-> << >>, fileTypesToSearch |-> Undefined],
                    << SourceFile(file.path, file.content) >>, 0).results

RequestsAddition(p) ==
  \E verb \in {"add", "create", "implement", "build", "include"} :
    startsWith(toLowerCase(p), verb)

\* C16: for a prompt that mentions "page" and asks for an addition, over a
\* manifest with a non-empty entryPoint, targetFiles includes the entryPoint,
\* with or without router files in the manifest, when the ADD_FEATURE group
\* matches the prompt and when no group does
C16_PageAdditionTargetsEntryPoint ==
  ( /\ Returned
    /\ includes(toLowerCase(prompt), "page")
    /\ RequestsAddition(prompt)
    /\ manifest.entryPoint # ""
    /\ intent.type = "ADD_FEATURE" \/ NoGroupMatches(prompt) )
    => SeqContains(intent.targetFiles, manifest.entryPoint)

C16_Witness ==
  /\ Returned
  /\ prompt = "add a new pricing page"
  /\ intent.type = "ADD_FEATURE"
  /\ intent.targetFiles = << "src/router.jsx", "src/App.jsx" >>

(***************************************************************************)
(* Properties of the rate-limiting middleware.                             *)
(***************************************************************************)
Answered == request # NoRequest

TooManyRequests == ~response.next /\ response.status = 429

\* the request is a WebSocket upgrade: Upgrade: websocket, or a Connection
\* header that contains 'upgrade'
IsUpgrade(r) ==
  \/ r.upgrade # Undefined /\ toLowerCase(r.upgrade[1]) = "websocket"
  \/ r.connection # Undefined /\ includes(toLowerCase(r.connection[1]), "upgrade")

IsLimited(r) == startsWith(r.pathname, "/api/") /\ ~IsUpgrade(r)

\* the requests received from a key are within the limits per minute: here,
\* within them even when all are counted in the same minute
WithinLimits(key) ==
  /\ sent[key]["ai_generation"] <= RATE_LIMITS.ai_generation.limit
  /\ sent[key]["code_application"] <= RATE_LIMITS.code_application.limit
  /\ sent[key]["sandbox_creation"] <= RATE_LIMITS.sandbox.limit

\* C17: while the AI generation, code application and sandbox creation
\* requests of a client stay within 10, 20 and 5 per minute, none of them is
\* answered with status 429, whatever requests to other endpoints come in
\* between
C17_NoThrottlingWithinLimits ==
  ( /\ Answered
    /\ IsLimited(request)
    /\ Category(request) # "other"
    /\ WithinLimits(getRateLimitKey(request)) )
    => ~TooManyRequests

\* the record of the request's key and tier holds a window that is not over
\* and whose count has reached the limit
Exhausted(r, map, time) ==
  /\ getRateLimitKey(r) \in DOMAIN map
  /\ getEndpointTier(r.pathname) \in DOMAIN map[getRateLimitKey(r)]
  /\ LET record == map[getRateLimitKey(r)][getEndpointTier(r.pathname)]
     IN  time <= record.resetTime /\ record.count >= RATE_LIMITS[getEndpointTier(r.pathname)].limit

\* C18: within a window the middleware lets through at most limit rate-limited
\* requests of a key and tier: a request that is let through is counted, the
\* count never exceeds the limit, and once the count has reached the limit a
\* request is answered with status 429 and a Retry-After header and leaves
\* the stored counts as they are
C18_AtMostLimitPerWindow ==
  [][(handled' = handled + 1 /\ IsLimited(request')) =>
       LET key == getRateLimitKey(request')
           tier == getEndpointTier(request'.pathname)
           SameWindow == /\ key \in DOMAIN rateLimitMap
                         /\ tier \in DOMAIN rateLimitMap[key]
                         /\ now <= rateLimitMap[key][tier].resetTime
       IN  /\ rateLimitMap'[key][tier].count <= RATE_LIMITS[tier].limit
           /\ (response'.next /\ SameWindow) =>
                rateLimitMap'[key][tier].count = rateLimitMap[key][tier].count + 1
           /\ (response'.next /\ ~SameWindow) => rateLimitMap'[key][tier].count = 1
           /\ Exhausted(request', rateLimitMap, now) =>
                /\ ~response'.next
                /\ response'.status = 429
                /\ "Retry-After" \in DOMAIN response'.headers
                /\ rateLimitMap' = rateLimitMap
           /\ ~response'.next => Exhausted(request', rateLimitMap, now)]_vars

C18_Witness ==
  /\ Answered
  /\ IsLimited(request)
  /\ TooManyRequests
  /\ response.headers["Retry-After"] = "60"
  /\ Exhausted(request, rateLimitMap, now)
  /\ now > 0

\* C19: a WebSocket upgrade request to /api/ is passed through, also when the
\* quota of its key and tier is used up, and leaves the rate-limit map as it
\* is
C19_UpgradesAreExempt ==
  [][( /\ handled' = handled + 1
       /\ startsWith(request'.pathname, "/api/")
       /\ IsUpgrade(request') )
       => response'.next /\ rateLimitMap' = rateLimitMap]_vars

C19_Witness ==
  /\ Answered
  /\ startsWith(request.pathname, "/api/")
  /\ IsUpgrade(request)
  /\ request.upgrade = Undefined
  /\ Exhausted(request, rateLimitMap, now)
  /\ response.next

(***************************************************************************)
(* Properties of the conversation-state route.                             *)
(***************************************************************************)
\* the last call was a GET and the route has answered it
Retrieved == call = [method |-> "GET"]

\* the messages of array a are in array b, in the order of a: each message
\* of a is matched with its first occurrence in b after the match of the one
\* before it
IsSubsequence(a, b) ==
  LET \* the index after the first occurrence of a[k] in b at or after start
      After(k, start) ==
        LET found == {j \in start..Len(b) : b[j] = a[k]}
        IN  IF found = {} THEN Len(b) + 2 ELSE Min(found) + 1
      RECURSIVE MatchAll(_, _, _)
      \* the index after the matches of a[from..upTo] in b, from start on
      MatchAll(from, upTo, start) ==
        IF from > upTo THEN start
        ELSE IF from = upTo THEN After(from, start)
        ELSE Only({ MatchAll((from + upTo) \div 2 + 1, upTo, reached)
                    : reached \in {MatchAll(from, (from + upTo) \div 2, start)} })
  IN  MatchAll(1, Len(a), 1) <= Len(b) + 1

\* C20: every message that add-message has stored since the last reset or
\* DELETE is in the state a later GET returns, and the messages are there in
\* the order in which they were stored, whatever update, update-sandbox and
\* clear-old calls have been made in between.
C20_StoredMessagesRetrievable ==
  (Retrieved /\ stored # << >>) =>
    /\ reply.body.state # Null
    /\ IsSubsequence(stored, reply.body.state.context.messages)

\* the sandbox id a conversation state holds, or null
StoredSandboxId(state) ==
  IF state = Null THEN Undefined
  ELSE IF state.context.sandboxState = Undefined THEN Undefined
  ELSE state.context.sandboxState[1].sandboxId

\* this step is the route answering a POST with the reset action
ResetStep ==
  /\ callsServed' = callsServed + 1
  /\ call' = [method |-> "POST", body |-> [action |-> "reset", data |-> Undefined]]

\* the conversation a reset leaves is empty and has an empty sandbox state
ResetLeavesEmpty ==
  /\ conversationState'.context.messages = << >>
  /\ conversationState'.context.edits = << >>
  /\ conversationState'.context.projectEvolution.majorChanges = << >>
  /\ conversationState'.context.sandboxState # Undefined
  /\ conversationState'.context.sandboxState[1].sandboxId = Undefined
  /\ conversationState'.context.sandboxState[1].url = Undefined
  /\ conversationState'.context.sandboxState[1].modifications = << >>

\* C21, as stated: a reset, from any prior state, leaves a conversation with
\* no messages, no edits, no major changes and a sandbox state with null
\* sandboxId and url and no modifications, and answers with previousSandboxId
\* equal to the sandboxId stored just before it (null if there was none).
C21_ResetReturnsStoredSandboxId ==
  [][ResetStep =>
       /\ ResetLeavesEmpty
       /\ reply'.body.previousSandboxId = StoredSandboxId(conversationState)]_vars

\* C21, amended: the same, with previousSandboxId null also when the sandboxId
\* stored just before the reset was the empty string.
C21_ResetReturnsTruthySandboxId ==
  [][ResetStep =>
       /\ ResetLeavesEmpty
       /\ reply'.body.previousSandboxId =
            IF StoredSandboxId(conversationState) = Some("") THEN Undefined
            ELSE StoredSandboxId(conversationState)]_vars

\* a reset has answered with the id of the sandbox of the conversation it
\* replaced, after at least one earlier call
C21_Witness ==
  /\ call = [method |-> "POST", body |-> [action |-> "reset", data |-> Undefined]]
  /\ reply.body.previousSandboxId = Some("sbx-1")
  /\ stored = << >>
  /\ callsServed >= 2

\* the files of m whose lower-cased basename or component name contains a
\* token extracted from the prompt p
NamedFiles(p, m) ==
  LET tokens == extractComponentNames(p)
  IN  {i \in DOMAIN m.files :
         \E t \in DOMAIN tokens :
           \/ includes(toLowerCase(Basename(m.files[i].path)), tokens[t])
           \/ /\ m.files[i].hasComponentInfo
              /\ includes(toLowerCase(m.files[i].componentName), tokens[t])}

\* the files of m whose lower-cased basename contains the UI-element keyword
KeywordFiles(keyword, m) ==
  {i \in DOMAIN m.files : includes(toLowerCase(Basename(m.files[i].path)), keyword)}

\* the UI-element keywords, by their place in the list, that the prompt p
\* contains and that some basename of m contains
PresentKeywords(p, m) ==
  {e \in DOMAIN uiElements :
     includes(toLowerCase(p), uiElements[e]) /\ KeywordFiles(uiElements[e], m) # {}}

\* the one path the resolver by name is to return: the first file named by a
\* token; else, for the first keyword that is present, the first file named
\* keyword.ext or keyword if there is one and the first file whose basename
\* contains the keyword otherwise; else the entry point
ExpectedComponent(p, m) ==
  LET keyword == uiElements[Min(PresentKeywords(p, m))]
      exact == {i \in KeywordFiles(keyword, m) :
                  \/ includes(toLowerCase(Basename(m.files[i].path)), keyword \o ".")
                  \/ toLowerCase(Basename(m.files[i].path)) = keyword}
  IN  IF NamedFiles(p, m) # {} THEN m.files[Min(NamedFiles(p, m))].path
      ELSE IF PresentKeywords(p, m) = {} THEN m.entryPoint
      ELSE IF exact # {} THEN m.files[Min(exact)].path
      ELSE m.files[Min(KeywordFiles(keyword, m))].path

C22_KeywordWitness ==
  /\ Returned
  /\ intent.type = "REFACTOR"
  /\ NamedFiles(prompt, manifest) = {}
  /\ Cardinality(KeywordFiles("header", manifest)) >= 2
  /\ intent.targetFiles = << "src/components/Header.jsx" >>

\* C23: for a prompt classified UPDATE_STYLE, targetFiles is the set union
\* of manifest.styleFiles, of every manifest path that contains
\* 'tailwind.config' and of the result of findComponentFiles: each of these
\* paths is in targetFiles, nothing else is, and no path is there twice.
C23_StyleTargetsAreAUnion ==
  (Returned /\ intent.type = "UPDATE_STYLE") =>
    /\ Elements(intent.targetFiles) =
         Elements(manifest.styleFiles)
           \cup {path \in Elements(Paths(manifest)) : includes(path, "tailwind.config")}
           \cup Elements(findComponentFiles(prompt, manifest))
    /\ \A i, j \in DOMAIN intent.targetFiles :
         intent.targetFiles[i] = intent.targetFiles[j] => i = j

\* the terms and the patterns of the tier that the returned searchType names
TierTerms ==
  IF execution.searchType = "exact" THEN searchPlan.searchTerms
  ELSE IF execution.searchType = "fuzzy" THEN searchPlan.fallbackSearch[1].terms
  ELSE SemanticTerms(searchPlan.searchTerms)
TierPatterns ==
  IF execution.searchType = "exact" THEN searchPlan.regexPatterns
  ELSE IF execution.searchType = "fuzzy" THEN searchPlan.fallbackSearch[1].regexPatterns
  ELSE << >>

\* the path ends with one of the extensions to search
HasListedExtension(path) ==
  \E t \in DOMAIN fileTypesToSearch(searchPlan) : endsWith(path, fileTypesToSearch(searchPlan)[t])

\* every file among the given ones is scanned: the count of scanned files
\* covers them, and each of their lines that the terms or patterns of the
\* returned tier match has its result
AllScanned(eligible) ==
  /\ execution.filesSearched >= Cardinality(eligible)
  /\ \A f \in eligible :
       \A i \in DOMAIN split(files[f].content, "\n") :
         (\/ MatchTerm(split(files[f].content, "\n")[i], TierTerms) # 0
          \/ MatchPattern(split(files[f].content, "\n")[i], TierPatterns, 1) # 0) =>
           \E r \in DOMAIN execution.results :
             /\ execution.results[r].filePath = files[f].path
             /\ execution.results[r].lineNumber = i

\* no result is in a file listed in excludeFiles or without a listed extension
NoResultInFilteredFile ==
  \A r \in DOMAIN execution.results :
    /\ ~SeqContains(searchPlan.excludeFiles, execution.results[r].filePath)
    /\ HasListedExtension(execution.results[r].filePath)

\* C24, as stated: no result of executeSearchPlan, whichever tier found it,
\* is in a file whose path is listed in excludeFiles or whose extension is not
\* in fileTypesToSearch, and every file whose path is not listed in
\* excludeFiles and whose extension is listed is scanned.
C24_ListedFilesAreSkipped ==
  Executed =>
    /\ NoResultInFilteredFile
    /\ AllScanned({f \in DOMAIN files :
                     /\ ~SeqContains(searchPlan.excludeFiles, files[f].path)
                     /\ HasListedExtension(files[f].path)})

\* C24, amended: the same, with the files that are scanned being those with
\* a listed extension whose path contains no entry of excludeFiles.
C24_FilesNamingNoExcludeAreScanned ==
  Executed =>
    /\ NoResultInFilteredFile
    /\ AllScanned({f \in DOMAIN files :
                     /\ \A x \in DOMAIN searchPlan.excludeFiles :
                          ~includes(files[f].path, searchPlan.excludeFiles[x])
                     /\ HasListedExtension(files[f].path)})

\* a search with results has left out a style sheet that holds a line with a
\* term of the tier, and has scanned two files or more
C24_Witness ==
  /\ Executed
  /\ Len(execution.results) > 0
  /\ execution.filesSearched >= 2
  /\ \E f \in DOMAIN files :
       /\ ~HasListedExtension(files[f].path)
       /\ \E i \in DOMAIN split(files[f].content, "\n") :
            MatchTerm(split(files[f].content, "\n")[i], TierTerms) # 0

\* the lower-cased term contains the concept key of entry c of the table
HoldsConcept(term, c) == includes(toLowerCase(term), semanticAlternatives[c].concept)
\* the lower-cased term contains an alternative of entry c of the table
HoldsAlternative(term, c) ==
  \E a \in DOMAIN semanticAlternatives[c].alternatives :
    includes(toLowerCase(term), semanticAlternatives[c].alternatives[a])

\* the semantic tier has been entered
SemanticTierEntered == Executed /\ execution.searchType = "semantic"

\* the results of the semantic tier are those of a search for the expansion
\* of the original search terms, and with an empty expansion no search is
\* made: the files are counted for the tiers before only and the result is
\* the no-match result
SearchesTheExpansion ==
  /\ SameResults(execution.results, SemanticMatches)
  /\ \A r \in DOMAIN execution.results :
       /\ execution.results[r].matchedTerm # Undefined
       /\ execution.results[r].matchedTerm[1]
            \in Elements(SemanticTerms(searchPlan.searchTerms))
  /\ Len(SemanticTerms(searchPlan.searchTerms)) = 0 =>
       /\ IsNoMatchResult
       /\ execution.filesSearched =
            Cardinality(Searchable) * (IF execution.usedFallback THEN 2 ELSE 1)

\* C25, as stated: in the semantic tier the expanded term list is built from
\* the original searchTerms only, through the synonym table in both
\* directions: a term that contains a concept key contributes all the
\* alternatives of the key, a term that contains an alternative contributes
\* the concept key; when no term maps to an entry no third search is run and
\* the result is the no-match result.
C25_ExpansionInBothDirections ==
  SemanticTierEntered =>
    /\ \A t \in DOMAIN searchPlan.searchTerms, c \in DOMAIN semanticAlternatives :
         /\ HoldsConcept(searchPlan.searchTerms[t], c) =>
              Elements(semanticAlternatives[c].alternatives)
                \subseteq Elements(SemanticTerms(searchPlan.searchTerms))
         /\ HoldsAlternative(searchPlan.searchTerms[t], c) =>
              semanticAlternatives[c].concept
                \in Elements(SemanticTerms(searchPlan.searchTerms))
    /\ SearchesTheExpansion

\* C25, amended: the same, with a term contributing the concept key of an
\* alternative it contains only when it does not contain that key itself.
C25_ExpansionByKeyOrElseAlternative ==
  SemanticTierEntered =>
    /\ \A t \in DOMAIN searchPlan.searchTerms, c \in DOMAIN semanticAlternatives :
         /\ HoldsConcept(searchPlan.searchTerms[t], c) =>
              Elements(semanticAlternatives[c].alternatives)
                \subseteq Elements(SemanticTerms(searchPlan.searchTerms))
         /\ (HoldsAlternative(searchPlan.searchTerms[t], c)
               /\ ~HoldsConcept(searchPlan.searchTerms[t], c)) =>
              semanticAlternatives[c].concept
                \in Elements(SemanticTerms(searchPlan.searchTerms))
    /\ SearchesTheExpansion

\* the fallback found nothing for a term that is an alternative of a concept,
\* the original term maps to no entry, and the search ended without a match
\* on files that hold the concept
C25_Witness ==
  /\ SemanticTierEntered
  /\ execution.usedFallback
  /\ Len(SemanticTerms(searchPlan.searchTerms)) = 0
  /\ Len(SemanticTerms(searchPlan.fallbackSearch[1].terms)) > 0
  /\ Len(performSearch(SemanticTerms(searchPlan.fallbackSearch[1].terms), << >>,
                       searchPlan, files).results) > 0
  /\ IsNoMatchResult

\* the messages of a conversation state, none for null
MessagesOf(state) == IF state = Null THEN << >> ELSE state.context.messages

\* this step is the route storing a message for the add-message action
AddMessageStep ==
  /\ callsServed' = callsServed + 1
  /\ call'.method = "POST"
  /\ call'.body # Malformed
  /\ call'.body.action = "add-message"
  /\ reply'.status = 200

C27_NewWindowAfterReset ==
  [][(handled' = handled + 1) =>
       LET key == getRateLimitKey(request')
           tier == getEndpointTier(request'.pathname)
       IN  /\ ( /\ IsLimited(request')
                /\ key \in DOMAIN rateLimitMap
                /\ tier \in DOMAIN rateLimitMap[key]
                /\ now > rateLimitMap[key][tier].resetTime ) =>
                /\ response'.next
                /\ rateLimitMap'[key][tier] =
                     [count |-> 1, resetTime |-> now + RATE_LIMITS[tier].window]
           /\ \A k \in DOMAIN rateLimitMap :
                \A t \in DOMAIN rateLimitMap[k] :
                  (~IsLimited(request') \/ k # key \/ t # tier) =>
                    /\ k \in DOMAIN rateLimitMap'
                    /\ t \in DOMAIN rateLimitMap'[k]
                    /\ rateLimitMap'[k][t] = rateLimitMap[k][t]]_vars

\* after the window of its key and tier was over a request has been allowed
\* and counted as the first of a new window, while the record of another tier
\* of the same key, whose window is over too, is as it was
C27_Witness ==
  /\ Answered
  /\ IsLimited(request)
  /\ response.next
  /\ handled = 2
  /\ now > RATE_LIMIT_WINDOW
  /\ getEndpointTier(request.pathname) = "sandbox"
  /\ rateLimitMap[getRateLimitKey(request)]["sandbox"] =
       [count |-> 1, resetTime |-> now + RATE_LIMIT_WINDOW]
  /\ \E t \in DOMAIN rateLimitMap[getRateLimitKey(request)] :
       /\ t # "sandbox"
       /\ rateLimitMap[getRateLimitKey(request)][t].resetTime < now

\* this step is startNewProjectWithSandbox returning success
ProjectReturnsSuccess ==
  /\ project.at = "return"
  /\ project'.at = "done"
  /\ project'.result.success

\* C28: when startNewProjectWithSandbox returns success with sandboxId S, the
\* conversation state's sandboxState.sandboxId is S, whatever requests of other
\* clients the route served between the steps of the workflow and whether or
\* not the workflow's update-sandbox request was delivered.
C28_ReturnedSandboxIsStored ==
  [][ProjectReturnsSuccess =>
       StoredSandboxId(conversationState') = Some(project'.result.sandboxId)]_vars

\* C29: no SearchResult of executeSearchPlan has confidence 'low': each is
\* 'medium' or 'high'.
C29_NoLowConfidence ==
  execution # NotExecuted =>
    \A r \in DOMAIN execution.results :
      execution.results[r].confidence \in {"medium", "high"}

\* a search returned a medium result that is neither jsx nor style, a medium
\* result that is jsx or style, and a high result
C29_Witness ==
  /\ execution # NotExecuted
  /\ \E r \in DOMAIN execution.results :
       /\ execution.results[r].confidence = "medium"
       /\ execution.results[r].elementType \notin {"jsx", "style"}
  /\ \E r \in DOMAIN execution.results :
       /\ execution.results[r].confidence = "medium"
       /\ execution.results[r].elementType \in {"jsx", "style"}
  /\ \E r \in DOMAIN execution.results : execution.results[r].confidence = "high"

\* C30: the filesSearched that executeSearchPlan returns is the number of
\* files that pass the exclude and extension filters, and so is at most the
\* number of entries in files, whichever tiers of the ladder were run.
C30_FilesSearchedCountsFilesOnce ==
  Executed =>
    /\ execution.filesSearched =
         Cardinality({f \in DOMAIN files : shouldSearch(searchPlan, files[f].path)})
    /\ execution.filesSearched <= Len(files)

====
